---- MODULE Spec2Model ----
(***************************************************************************)
(* Verification model of backuparr.                                        *)
(*                                                                         *)
(* Three components are modelled, each with its own specification:         *)
(*   SpecRetry   the retry transport (internal/backup/retry.go)            *)
(*   SpecBackup  runBackup and the retention engine (cmd/backuparr/main.go,*)
(*               unnamed/part_004)                                         *)
(*   SpecJobs    the web UI job runner (unnamed/part_008)                  *)
(* Spec is their disjoint union: a behaviour of Spec is a behaviour of     *)
(* exactly one component, the other components staying idle.               *)
(***************************************************************************)
EXTENDS Integers, Sequences, FiniteSets, TLC

VARIABLES
    \* ---- retry transport: one RoundTrip call ----
    rt,          \* the RetryTransport value: [MaxRetries, BaseDelay]
    reqBody,     \* req.Body as handed to RoundTrip: a reader [data, pos], or NoBody
    bodyBytes,   \* the buffered body (Nil when the request has none)
    rtPc,        \* position in RoundTrip: idle, start, top, inflight, sleep, done
    attempt,     \* the loop variable
    calls,       \* number of Base.RoundTrip invocations so far
    attemptBody, \* attemptReq.Body of the attempt in flight: a reader [data, pos]
    lastOutcome, \* what Base.RoundTrip returned most recently
    lastErr,     \* RoundTrip's local lastErr
    lastResp,    \* RoundTrip's local lastResp
    ctxErr,      \* req.Context().Err(): Nil, or the cancellation error
    timer,       \* time left on time.After(delay) while sleeping
    ret,         \* the (resp, err) pair RoundTrip returned
    exit,        \* which return statement RoundTrip left through
    consumed,    \* bytes of its body the most recent finished attempt read
    \* ---- runBackup / ApplyRetention ----
    store,       \* per backend: the set of stored artifacts [key, app, createdAt]
    now,         \* time.Now() of the run
    bkPc,        \* position in runBackup: idle, start, upload, retention, done
    bkApp,       \* app.Name() of the run
    bkPolicy,    \* the retention policy of the run
    bkIdx,       \* index of the backend the loop is at
    bkErr,       \* the error runBackup returned
    uploadLog,   \* the Upload calls the backends received: backend, result
    retentionLog,\* backends on which ApplyRetention ran in this run
    lastPass,    \* record of the most recent ApplyRetention pass
    \* ---- web UI job runner ----
    jobs,        \* s.jobs: id -> job record
    jobPc,       \* the executeBackupJob goroutines: id, position, locals
    logCaptureMu,\* goroutine holding the log-capture mutex (0 when free)
    clock,       \* time.Now() of the web server
    \* ---- app client: one Backup call ----
    appKind,     \* which client runs: radarr or prowlarr
    appPc,       \* position in Backup: idle, command, poll, wait, list, host,
                 \* login, download, read, done
    appCtx,      \* ctx.Err() of the caller's context ("" while not done)
    appTimer,    \* seconds left on time.After(2 * time.Second)
    appReqs,     \* the requests sent to the app, in order
    appPolls,    \* number of status polls sent
    appStatus,   \* the status the last poll returned
    appJar,      \* names of the cookies c.httpClient.Jar holds for the base URL
    authMethod,  \* what getAuthMethod returned
    loginStatus, \* status of the login response (0: none)
    loginErr,    \* what loginWithForms returned
    appErr,      \* the error Backup returned (<< >> for nil)
    appExit,     \* where Backup returned
    \* ---- web UI handlers of the job API ----
    handlers,    \* the handlers taking requests: none, http or ws
    post,        \* the POST handler inside snapshotJob: what it has copied
    snap,        \* the snapshot a handler emitted most recently
    wsPc,        \* position in handleBackupWS: idle, first, select, tick, closed
    wsId,        \* the job id of the WebSocket connection
    wsHealthy,   \* no read or write on the connection has failed
    wsTicked,    \* a tick's snapshot was written on the connection
    \* ---- enrichment of an artifact: CreateEnhancedBackup, then extraction ----
    zZip,        \* the original ZIP: its entries [name, data] in order
    zDumps,      \* the dump map: file name -> bytes
    zOut,        \* what CreateEnhancedBackup returned
    zGot,        \* what ExtractPostgresDumpsFromZip returned for zOut
    zPc,         \* idle, start, enhanced, done
    \* ---- app client: one Restore call ----
    rsKind,      \* which client runs: radarr or prowlarr
    rsPc,        \* position in Restore: idle, read, extract, databases,
                 \* upload, restart, done
    rsZip,       \* the artifact handed to Restore
    rsOverride,  \* c.pgOverride (Nil when absent)
    rsConfig,    \* the pgConfig the databases are restored with
    rsRestored,  \* the RestoreDatabase calls made: database, dump name, bytes
    rsReqs,      \* the requests sent to the app, in order
    rsErr,       \* the error Restore returned (<< >> for nil)
    \* ---- one backend: an upload of runBackup, then the listings ----
    stApps,      \* cfg.AppConfigs: [AppType, Name] in order
    stRun,       \* the position in stApps of the app runBackup runs for
    stKind,      \* the backend: local or pbs
    stObjects,   \* what the backend holds: files or snapshots
    stStored,    \* the object the upload stored (Nil before and on failure)
    stMeta,      \* the metadata Upload returned (Nil before and on failure)
    stLists,     \* per command, what its List returned (Nil before)
    stCalls,     \* the Download and Delete calls made with Upload's key
    stPc,        \* idle, upload, uploaded
    \* ---- one listing, classified for the UI and selected for a pass ----
    clBackups,   \* the listing, in the order List returned it
    clPolicy,    \* the retention policy
    clLabels,    \* ClassifyRetentionBuckets' map (Nil before the call)
    clKeep       \* selectBackupsToKeep's set (Nil before the call)

retryVars == << rt, reqBody, bodyBytes, rtPc, attempt, calls, attemptBody,
                lastOutcome, lastErr, lastResp, ctxErr, timer, ret, exit,
                consumed >>
backupVars == << store, now, bkPc, bkApp, bkPolicy, bkIdx, bkErr, uploadLog,
                 retentionLog, lastPass >>
jobVars == << jobs, jobPc, logCaptureMu, clock >>
clientVars == << appKind, appPc, appCtx, appTimer, appReqs, appPolls, appStatus,
                 appJar, authMethod, loginStatus, loginErr, appErr, appExit >>
webVars == << handlers, post, snap, wsPc, wsId, wsHealthy, wsTicked >>
zipVars == << zZip, zDumps, zOut, zGot, zPc >>
restoreVars == << rsKind, rsPc, rsZip, rsOverride, rsConfig, rsRestored, rsReqs, rsErr >>
storeVars == << stApps, stRun, stKind, stObjects, stStored, stMeta, stLists,
                stCalls, stPc >>
classVars == << clBackups, clPolicy, clLabels, clKeep >>
vars == << retryVars, backupVars, jobVars, clientVars, webVars, zipVars, restoreVars,
           storeVars, classVars >>

\* The nil pointer, interface or slice.
Nil == [kind |-> "nil"]
\* No return statement reached yet.
NoExit == "none"

----------------------------------------------------------------------------
(***************************************************************************)
(* Retry transport                                                         *)
(***************************************************************************)

\* Largest MaxRetries field value the model configures.
MaxRetriesCfg == 2
\* NewRetryTransport's defaults, also used when a field is <= 0.
DefaultMaxRetries == 3
DefaultBaseDelay == 2

\* Request bodies the model sends.
Bodies == {<< >>, <<"a">>, <<"a", "b">>, <<"b", "a", "b">>}

\* Error messages, as character sequences (strings.Contains works on them).
ErrUnexpectedEOF == <<"u","n","e","x","p","e","c","t","e","d"," ","E","O","F">>
ErrUnknownScheme == <<"u","n","k","n","o","w","n"," ","s","c","h","e","m","e",":"," ","f","t","p">>
ErrCanceled == <<"c","o","n","t","e","x","t"," ","c","a","n","c","e","l","e","d">>
ErrDeadlineExceeded == <<"c","o","n","t","e","x","t"," ","d","e","a","d","l","i","n","e"," ","e","x","c","e","e","d","e","d">>

\* Errors the base transport can return.
BaseErrors == {ErrUnexpectedEOF, ErrUnknownScheme, ErrDeadlineExceeded}
\* Status codes the base transport can return.
BaseStatuses == {200, 401, 429, 500, 502, 503, 504}

UpperLetters == <<"A","B","C","D","E","F","G","H","I","J","K","L","M",
                  "N","O","P","Q","R","S","T","U","V","W","X","Y","Z">>
LowerLetters == <<"a","b","c","d","e","f","g","h","i","j","k","l","m",
                  "n","o","p","q","r","s","t","u","v","w","x","y","z">>

ToLower(s) ==
    [i \in 1..Len(s) |->
        IF \E k \in 1..Len(UpperLetters) : UpperLetters[k] = s[i]
        THEN LowerLetters[CHOOSE k \in 1..Len(UpperLetters) : UpperLetters[k] = s[i]]
        ELSE s[i]]

Contains(s, pattern) ==
    \E i \in 1..(Len(s) - Len(pattern) + 1) :
        SubSeq(s, i, i + Len(pattern) - 1) = pattern

retryable ==
    << <<"e","o","f">>,
       <<"c","o","n","n","e","c","t","i","o","n"," ","r","e","s","e","t">>,
       <<"c","o","n","n","e","c","t","i","o","n"," ","r","e","f","u","s","e","d">>,
       <<"b","r","o","k","e","n"," ","p","i","p","e">>,
       <<"t","i","m","e","o","u","t">>,
       <<"d","e","a","d","l","i","n","e"," ","e","x","c","e","e","d","e","d">>,
       <<"t","l","s"," ","h","a","n","d","s","h","a","k","e">>,
       <<"t","e","m","p","o","r","a","r","y"," ","f","a","i","l","u","r","e">>,
       <<"s","e","r","v","e","r"," ","c","l","o","s","e","d">>,
       <<"t","r","a","n","s","p","o","r","t"," ","c","o","n","n","e","c","t","i","o","n"," ","b","r","o","k","e","n">> >>

\* A faulty variant: every 5xx status is taken as transient.
isRetryableStatusAny5xx(status) == status = 429 \/ status >= 500
isRetryableStatus(status) == status \in {502, 503, 504, 429}

isRetryableError(err) ==
    /\ err # Nil
    /\ \E k \in 1..Len(retryable) : Contains(ToLower(err.msg), retryable[k])

\* An outcome of Base.RoundTrip: a response or an error; n is the call that made it.
Response(status, n) == [kind |-> "resp", status |-> status, n |-> n]
Error(msg, n) == [kind |-> "err", msg |-> msg, n |-> n]
CtxError(msg) == [kind |-> "err", msg |-> msg, n |-> 0]

\* The (resp, err) pair of a return statement.
Return(resp, err) == [resp |-> resp, err |-> err]

\* io.NopCloser(bytes.NewReader(bodyBytes)): a fresh reader at offset 0.
\* A faulty variant: the reader of the previous attempt is handed on.
SharedReader(data, prev) == IF prev = Nil THEN [data |-> data, pos |-> 0] ELSE prev
NewReader(data, prev) == [data |-> data, pos |-> 0]

\* What is left to read from a reader.
Unread(r) == SubSeq(r.data, r.pos + 1, Len(r.data))

\* The reader after n more bytes were read from it.
AfterRead(r, n) == IF r = Nil THEN Nil ELSE [r EXCEPT !.pos = @ + n]

\* maxRetries := t.MaxRetries; if maxRetries <= 0 { maxRetries = 3 }
maxRetries(t) == IF t.MaxRetries <= 0 THEN DefaultMaxRetries ELSE t.MaxRetries

\* baseDelay := t.BaseDelay; if baseDelay <= 0 { baseDelay = 2 * time.Second }
baseDelay(t) == IF t.BaseDelay <= 0 THEN DefaultBaseDelay ELSE t.BaseDelay

\* A faulty variant: the delay grows by baseDelay per attempt.
DelayLinear(t, a) == baseDelay(t) * (a + 1)
\* delay := baseDelay * time.Duration(1<<uint(attempt))
Delay(t, a) == baseDelay(t) * (2 ^ a)

\* req.Context().Err() != nil, and readiness of <-req.Context().Done().
\* A faulty variant: the context is never looked at.
CtxNeverDone(ce) == FALSE
CtxDone(ce) == ce # Nil

\* The statements after the retry loop.
AfterLoop(le, lr, ce) ==
    IF le # Nil THEN Return(Nil, le)
    ELSE IF lr # Nil THEN Return(lr, Nil)
    ELSE Return(Nil, ce)

\* The ctx.Done() case of the select that waits out the backoff delay.
\* A faulty variant: lastErr is not consulted.
SleepCancelledCtxOnly(le, ce) == Return(Nil, ce)
SleepCancelled(le, ce) == IF le # Nil THEN Return(Nil, le) ELSE Return(Nil, ce)

RetryIdle ==
    /\ rt = Nil /\ reqBody = Nil /\ bodyBytes = Nil /\ rtPc = "idle"
    /\ attempt = 0 /\ calls = 0 /\ attemptBody = Nil /\ lastOutcome = Nil
    /\ lastErr = Nil /\ lastResp = Nil /\ ctxErr = Nil /\ timer = 0
    /\ ret = Nil /\ exit = NoExit /\ consumed = 0

InitRetry ==
    /\ rt \in [MaxRetries : 0..MaxRetriesCfg, BaseDelay : {0, 1}]
    /\ reqBody \in {Nil} \cup {[data |-> d, pos |-> 0] : d \in Bodies}
    /\ bodyBytes = Nil
    /\ rtPc = "start"
    /\ attempt = 0 /\ calls = 0 /\ attemptBody = Nil /\ lastOutcome = Nil
    /\ lastErr = Nil /\ lastResp = Nil /\ ctxErr = Nil /\ timer = 0
    /\ ret = Nil /\ exit = NoExit /\ consumed = 0

\* The caller's context is cancelled or its deadline passes.
CancelCtx ==
    /\ rtPc \in {"start", "top", "inflight", "sleep"}
    /\ ctxErr = Nil
    /\ \E msg \in {ErrCanceled, ErrDeadlineExceeded} : ctxErr' = CtxError(msg)
    /\ UNCHANGED << rt, reqBody, bodyBytes, rtPc, attempt, calls, attemptBody,
                    lastOutcome, lastErr, lastResp, timer, ret, exit, consumed >>
    /\ UNCHANGED << backupVars, jobVars, clientVars, webVars, zipVars, restoreVars, storeVars, classVars >>

\* Lines 40-61: buffer the body; io.ReadAll may fail.
BufferBody ==
    /\ rtPc = "start"
    /\ \/ /\ reqBody # Nil
          /\ \E ok \in BOOLEAN :
                /\ reqBody' = [reqBody EXCEPT !.pos = Len(reqBody.data)]
                /\ IF ok
                   THEN /\ bodyBytes' = [bytes |-> Unread(reqBody)]
                        /\ rtPc' = "top"
                        /\ UNCHANGED << ret, exit >>
                   ELSE /\ bodyBytes' = Nil
                        /\ rtPc' = "done"
                        /\ ret' = Return(Nil, Error(ErrUnexpectedEOF, 0))
                        /\ exit' = "readBody"
       \/ /\ reqBody = Nil
          /\ rtPc' = "top"
          /\ UNCHANGED << reqBody, bodyBytes, ret, exit >>
    /\ UNCHANGED << rt, attempt, calls, attemptBody, lastOutcome, lastErr,
                    lastResp, ctxErr, timer, consumed >>
    /\ UNCHANGED << backupVars, jobVars, clientVars, webVars, zipVars, restoreVars, storeVars, classVars >>

\* Lines 63-79: the loop head finds the context done and breaks, or clones the
\* request with a fresh body and hands it to the base transport.
StartAttempt ==
    /\ rtPc = "top"
    /\ attempt <= maxRetries(rt)
    /\ IF CtxDone(ctxErr)
       THEN /\ rtPc' = "done"
            /\ ret' = AfterLoop(lastErr, lastResp, ctxErr)
            /\ exit' = "ctxTop"
            /\ UNCHANGED << calls, attemptBody >>
       ELSE /\ rtPc' = "inflight"
            /\ calls' = calls + 1
            /\ attemptBody' = IF bodyBytes # Nil
                              THEN NewReader(bodyBytes.bytes, AfterRead(attemptBody, consumed))
                              ELSE [data |-> << >>, pos |-> 0]
            /\ UNCHANGED << ret, exit >>
    /\ UNCHANGED << rt, reqBody, bodyBytes, attempt, lastOutcome, lastErr,
                    lastResp, ctxErr, timer, consumed >>
    /\ UNCHANGED << backupVars, jobVars, clientVars, webVars, zipVars, restoreVars, storeVars, classVars >>

\* What RoundTrip does with the outcome o of the attempt (lines 81-127 up to the
\* select, and the statements after the loop when the budget is spent).
AfterAttempt(o) ==
    LET err == IF o.kind = "err" THEN o ELSE Nil
        resp == IF o.kind = "resp" THEN o ELSE Nil
        le == IF err # Nil THEN err ELSE lastErr
        lr == IF err = Nil THEN resp ELSE lastResp
    IN  IF err = Nil /\ ~isRetryableStatus(resp.status)
        THEN /\ rtPc' = "done" /\ ret' = Return(resp, Nil) /\ exit' = "success"
             /\ UNCHANGED << attempt, lastErr, lastResp, timer >>
        ELSE IF CtxDone(ctxErr)
        THEN /\ rtPc' = "done" /\ ret' = Return(resp, err) /\ exit' = "ctxAfterAttempt"
             /\ UNCHANGED << attempt, lastErr, lastResp, timer >>
        ELSE IF err # Nil /\ ~isRetryableError(err)
        THEN /\ rtPc' = "done" /\ ret' = Return(Nil, err) /\ exit' = "nonRetryable"
             /\ lastErr' = err
             /\ UNCHANGED << attempt, lastResp, timer >>
        ELSE /\ lastErr' = le
             /\ lastResp' = lr
             /\ IF attempt < maxRetries(rt)
                THEN /\ rtPc' = "sleep"
                     /\ timer' = Delay(rt, attempt)
                     /\ UNCHANGED << attempt, ret, exit >>
                ELSE /\ attempt' = attempt + 1
                     /\ rtPc' = "done"
                     /\ ret' = AfterLoop(le, lr, ctxErr)
                     /\ exit' = "exhausted"
                     /\ UNCHANGED timer

\* Base.RoundTrip returns: it has read some of the attempt's body and produced
\* a response or an error.
AttemptReturns ==
    /\ rtPc = "inflight"
    /\ \E o \in {Response(s, calls) : s \in BaseStatuses}
                \cup {Error(m, calls) : m \in BaseErrors} :
          /\ lastOutcome' = o
          /\ AfterAttempt(o)
    /\ consumed' \in 0..Len(Unread(attemptBody))
    /\ UNCHANGED << rt, reqBody, bodyBytes, calls, attemptBody, ctxErr >>
    /\ UNCHANGED << backupVars, jobVars, clientVars, webVars, zipVars, restoreVars, storeVars, classVars >>

\* The delay passes while the select waits.
Tick ==
    /\ rtPc = "sleep"
    /\ timer > 0
    /\ timer' = 0
    /\ UNCHANGED << rt, reqBody, bodyBytes, rtPc, attempt, calls, attemptBody,
                    lastOutcome, lastErr, lastResp, ctxErr, ret, exit, consumed >>
    /\ UNCHANGED << backupVars, jobVars, clientVars, webVars, zipVars, restoreVars, storeVars, classVars >>

\* select case <-time.After(delay): the loop goes on with the next attempt.
SleepElapsed ==
    /\ rtPc = "sleep"
    /\ timer = 0
    /\ attempt' = attempt + 1
    /\ rtPc' = "top"
    /\ UNCHANGED << rt, reqBody, bodyBytes, calls, attemptBody, lastOutcome,
                    lastErr, lastResp, ctxErr, timer, ret, exit, consumed >>
    /\ UNCHANGED << backupVars, jobVars, clientVars, webVars, zipVars, restoreVars, storeVars, classVars >>

\* select case <-req.Context().Done()
SleepInterrupted ==
    /\ rtPc = "sleep"
    /\ CtxDone(ctxErr)
    /\ rtPc' = "done"
    /\ ret' = SleepCancelled(lastErr, ctxErr)
    /\ exit' = "sleepCancel"
    /\ UNCHANGED << rt, reqBody, bodyBytes, attempt, calls, attemptBody,
                    lastOutcome, lastErr, lastResp, ctxErr, timer, consumed >>
    /\ UNCHANGED << backupVars, jobVars, clientVars, webVars, zipVars, restoreVars, storeVars, classVars >>

NextRetry ==
    \/ CancelCtx
    \/ BufferBody
    \/ StartAttempt
    \/ AttemptReturns
    \/ Tick
    \/ SleepElapsed
    \/ SleepInterrupted

----------------------------------------------------------------------------
(***************************************************************************)
(* Calendar: an instant is a number of minutes since 2024-01-01T00:00      *)
(* (a Monday); every timestamp is in one location.                         *)
(***************************************************************************)

IsLeap(y) == (y % 4 = 0 /\ y % 100 # 0) \/ y % 400 = 0
DaysInYear(y) == IF IsLeap(y) THEN 366 ELSE 365
DaysInMonth(y, m) ==
    IF m = 2 THEN (IF IsLeap(y) THEN 29 ELSE 28)
    ELSE IF m \in {4, 6, 9, 11} THEN 30 ELSE 31

RECURSIVE DaysBeforeYear(_)
DaysBeforeYear(y) == IF y <= 2024 THEN 0 ELSE DaysBeforeYear(y - 1) + DaysInYear(y - 1)

RECURSIVE DaysBeforeMonth(_, _)
DaysBeforeMonth(y, m) == IF m <= 1 THEN 0 ELSE DaysBeforeMonth(y, m - 1) + DaysInMonth(y, m - 1)

\* time.Date(y, m, d, h, min, 0, 0, loc)
Date(y, m, d, h, min) ==
    (DaysBeforeYear(y) + DaysBeforeMonth(y, m) + (d - 1)) * 1440 + h * 60 + min

RECURSIVE YearOfDay(_, _)
YearOfDay(day, y) == IF day < DaysInYear(y) THEN y ELSE YearOfDay(day - DaysInYear(y), y + 1)

RECURSIVE MonthOfYDay(_, _, _)
MonthOfYDay(yday, y, m) ==
    IF yday < DaysInMonth(y, m) THEN m ELSE MonthOfYDay(yday - DaysInMonth(y, m), y, m + 1)

AbsDay(t) == t \div 1440
Year(t) == YearOfDay(AbsDay(t), 2024)
YearDay(t) == AbsDay(t) - DaysBeforeYear(Year(t))
Month(t) == MonthOfYDay(YearDay(t), Year(t), 1)
Day(t) == YearDay(t) - DaysBeforeMonth(Year(t), Month(t)) + 1
Hour(t) == (t % 1440) \div 60
\* time.Weekday: Sunday = 0
Weekday(t) == (AbsDay(t) + 1) % 7

\* time.Time.ISOWeek: the year and week of the Thursday of t's week.
ISOWeek(t) ==
    LET d0 == 4 - Weekday(t)
        d == IF d0 = 4 THEN -3 ELSE d0
        thursday == t + d * 1440
    IN  [year |-> Year(thursday), week |-> (YearDay(thursday) \div 7) + 1]

truncateHour(t) == Date(Year(t), Month(t), Day(t), Hour(t), 0)
truncateDay(t) == Date(Year(t), Month(t), Day(t), 0, 0)
truncateWeek(t) ==
    LET iso == ISOWeek(t)
        jan4 == Date(iso.year, 1, 4, 0, 0)
        weekday == IF Weekday(jan4) = 0 THEN 7 ELSE Weekday(jan4)
    IN  jan4 + (-(weekday - 1) + (iso.week - 1) * 7) * 1440
truncateMonth(t) == Date(Year(t), Month(t), 1, 0, 0)
truncateYear(t) == Date(Year(t), 1, 1, 0, 0)

\* The truncate function markByBucket is called with for a dimension.
Truncate(dim, t) ==
    CASE dim = "hourly" -> truncateHour(t)
      [] dim = "daily" -> truncateDay(t)
      [] dim = "weekly" -> truncateWeek(t)
      [] dim = "monthly" -> truncateMonth(t)
      [] dim = "yearly" -> truncateYear(t)

\* Instants of the artifacts already stored, and of the run.
TimeA == Date(2024, 12, 28, 10, 10)
TimeB == Date(2024, 12, 28, 10, 50)
TimeC == Date(2024, 12, 30, 8, 0)
TimeD == Date(2025, 1, 1, 9, 0)
RunTime == Date(2025, 1, 1, 9, 30)
Instants == {TimeA, TimeB, TimeC, TimeD, RunTime}
Dimensions == {"hourly", "daily", "weekly", "monthly", "yearly"}

\* Truncate over the instants of the model, computed once.
Buckets == [dim \in Dimensions |-> [t \in Instants |-> Truncate(dim, t)]]

----------------------------------------------------------------------------
(***************************************************************************)
(* Retention engine                                                        *)
(***************************************************************************)

\* Largest count a retention policy of the model holds in one field.
MaxKeep == 2

RetentionPolicy(last, hourly, daily, weekly, monthly, yearly) ==
    [KeepLast |-> last, KeepHourly |-> hourly, KeepDaily |-> daily,
     KeepWeekly |-> weekly, KeepMonthly |-> monthly, KeepYearly |-> yearly]

\* A stored artifact as List reports it.
BackupMetadata(key, app, createdAt) == [Key |-> key, AppName |-> app, CreatedAt |-> createdAt]

\* A faulty variant: the comparison of line 58 is Before, the oldest first.
RECURSIVE SortedOldestFirst(_)
SortedOldestFirst(backups) ==
    IF backups = {} THEN {<< >>}
    ELSE LET oldest == {b \in backups : \A o \in backups : b.CreatedAt <= o.CreatedAt}
         IN  UNION {{<< b >> \o rest : rest \in SortedOldestFirst(backups \ {b})} : b \in oldest}

\* The orders sort.Slice (newest first, not stable) can leave a listing in.
RECURSIVE SortedNewestFirst(_)
SortedNewestFirst(backups) ==
    IF backups = {} THEN {<< >>}
    ELSE LET newest == {b \in backups : \A o \in backups : b.CreatedAt >= o.CreatedAt}
         IN  UNION {{<< b >> \o rest : rest \in SortedNewestFirst(backups \ {b})} : b \in newest}

\* A faulty variant: every entry of a bucket is marked in turn, so that the
\* oldest one is the one it accounts for, and the newest is left out.
RECURSIVE markByBucketOldest(_, _, _, _, _, _)
markByBucketOldest(sorted, count, dim, i, seen, keep) ==
    IF i > Len(sorted) THEN keep
    ELSE LET bucket == Buckets[dim][sorted[i].CreatedAt]
             last   == \A j \in (i + 1)..Len(sorted) :
                            Buckets[dim][sorted[j].CreatedAt] # bucket
         IN  IF ~last
             THEN markByBucketOldest(sorted, count, dim, i + 1, seen, keep)
             ELSE IF Cardinality(seen \cup {bucket}) >= count
                  THEN keep \cup {sorted[i].Key}
                  ELSE markByBucketOldest(sorted, count, dim, i + 1, seen \cup {bucket},
                                          keep \cup {sorted[i].Key})

\* markByBucket, from position i of the listing on.
RECURSIVE markByBucket(_, _, _, _, _, _)
markByBucket(sorted, count, dim, i, seen, keep) ==
    IF i > Len(sorted) THEN keep
    ELSE LET bucket == Buckets[dim][sorted[i].CreatedAt]
         IN  IF bucket \notin seen
             THEN IF Cardinality(seen \cup {bucket}) >= count
                  THEN keep \cup {sorted[i].Key}
                  ELSE markByBucket(sorted, count, dim, i + 1, seen \cup {bucket},
                                    keep \cup {sorted[i].Key})
             ELSE markByBucket(sorted, count, dim, i + 1, seen, keep)

\* selectBackupsToKeep, given the order its sort left the listing in.
selectBackupsToKeep(sorted, policy) ==
    LET k0 == {sorted[i].Key : i \in {j \in 1..Len(sorted) : j <= policy.KeepLast}}
        k1 == IF policy.KeepHourly > 0
              THEN markByBucket(sorted, policy.KeepHourly, "hourly", 1, {}, k0) ELSE k0
        k2 == IF policy.KeepDaily > 0
              THEN markByBucket(sorted, policy.KeepDaily, "daily", 1, {}, k1) ELSE k1
        k3 == IF policy.KeepWeekly > 0
              THEN markByBucket(sorted, policy.KeepWeekly, "weekly", 1, {}, k2) ELSE k2
        k4 == IF policy.KeepMonthly > 0
              THEN markByBucket(sorted, policy.KeepMonthly, "monthly", 1, {}, k3) ELSE k3
        k5 == IF policy.KeepYearly > 0
              THEN markByBucket(sorted, policy.KeepYearly, "yearly", 1, {}, k4) ELSE k4
    IN  k5

\* The keys ApplyRetention's loop calls Delete on.
\* A faulty variant: the test of line 36 is inverted.
DeleteKept(backups, toKeep) == {b.Key : b \in {x \in backups : x.Key \in toKeep}}
DeleteTargets(backups, toKeep) == {b.Key : b \in {x \in backups : x.Key \notin toKeep}}

----------------------------------------------------------------------------
(***************************************************************************)
(* runBackup: one per-app run over the configured backends                 *)
(***************************************************************************)

\* Number of storage backends configured for the app.
NumBackends == 2

Backends == 1..NumBackends
Apps == {"sonarr", "radarr"}

\* A nil error.
NoErr == "<nil>"

\* <base>/<app>/<app>_<stamp>.zip
Key(app, stamp) == [dir |-> app, stamp |-> stamp]

\* Contents a backend can hold before the run.
StoreChoices ==
    { {},
      { BackupMetadata(Key("sonarr", TimeA), "sonarr", TimeA),
        BackupMetadata(Key("sonarr", TimeB), "sonarr", TimeB),
        BackupMetadata(Key("radarr", TimeC), "radarr", TimeC) },
      { BackupMetadata(Key("sonarr", TimeA), "sonarr", TimeC),
        BackupMetadata(Key("sonarr", TimeB), "sonarr", TimeC),
        BackupMetadata(Key("sonarr", TimeD), "sonarr", TimeD) },
      { BackupMetadata(Key("sonarr", TimeC), "sonarr", TimeC),
        BackupMetadata(Key("radarr", TimeA), "radarr", TimeA),
        BackupMetadata(Key("radarr", TimeB), "radarr", TimeB),
        BackupMetadata(Key("radarr", TimeC), "radarr", TimeC),
        BackupMetadata(Key("radarr", TimeD), "radarr", TimeD) } }

Fields == {"KeepLast", "KeepHourly", "KeepDaily", "KeepWeekly", "KeepMonthly", "KeepYearly"}

\* Policies of the runs: at most one field set.
Policies ==
    {p \in [Fields -> 0..MaxKeep] : Cardinality({f \in Fields : p[f] > 0}) <= 1}

\* What runBackup does after a failed Upload.
\* A faulty variant: the run is abandoned.
OnUploadErrorReturn == "return"
\* A faulty variant: the loop body goes on to the retention pass.
OnUploadErrorGoOn == "go on"
OnUploadError == "continue"

\* LocalBackend.Upload after io.Copy failed: os.Remove(path) takes the
\* partial file out of the directory.
\* A faulty variant: the partial file is left behind.
PartialFileLeft(files, key) == files
PartialFileRemoved(files, key) == {e \in files : e.Key # key}

\* The Delete calls of a pass, given the keys outside the keep set and those
\* whose Delete fails: the loop goes on after a failure.
\* A faulty variant: the loop ends at the first failure.
DeleteCallsUntilError(targets, failed) ==
    IF failed = {} THEN {targets}
    ELSE {c \in SUBSET targets : Cardinality(c \cap failed) = 1}
DeleteCalls(targets, failed) == {targets}

BackupIdle ==
    /\ store = << >> /\ now = 0 /\ bkPc = "idle" /\ bkApp = "none"
    /\ bkPolicy = Nil /\ bkIdx = 0 /\ bkErr = NoErr /\ uploadLog = << >>
    /\ retentionLog = << >> /\ lastPass = Nil

InitBackup ==
    /\ store \in [Backends -> StoreChoices]
    /\ now = RunTime
    /\ bkPc = "start"
    /\ bkApp \in Apps
    /\ bkPolicy \in Policies
    /\ bkIdx = 0
    /\ bkErr = NoErr
    /\ uploadLog = << >>
    /\ retentionLog = << >>
    /\ lastPass = Nil

\* The loop moves on to the next backend, or runBackup returns nil.
NextBackend ==
    IF bkIdx + 1 > NumBackends
    THEN /\ bkPc' = "done" /\ bkIdx' = bkIdx + 1 /\ bkErr' = NoErr
    ELSE /\ bkPc' = "upload" /\ bkIdx' = bkIdx + 1 /\ UNCHANGED bkErr

\* Lines 151-168: app.Backup, io.ReadAll, FormatBackupName.
AppBackup ==
    /\ bkPc = "start"
    /\ \E outcome \in {"ok", "backup failed", "failed to read backup data"} :
          IF outcome = "ok"
          THEN NextBackend
          ELSE /\ bkPc' = "done" /\ bkErr' = outcome /\ UNCHANGED bkIdx
    /\ UNCHANGED << store, now, bkApp, bkPolicy, uploadLog, retentionLog, lastPass >>
    /\ UNCHANGED << retryVars, jobVars, clientVars, webVars, zipVars, restoreVars, storeVars, classVars >>

\* Lines 172-177: backend.Upload on the backend the loop is at. A local
\* upload can fail before the file exists, or while writing, and then the
\* file is removed.
Upload ==
    /\ bkPc = "upload"
    /\ bkIdx \in Backends
    /\ \E res \in {"ok", "create failed", "write failed"} :
          /\ uploadLog' = Append(uploadLog,
                                 [backend |-> bkIdx, ok |-> res = "ok", res |-> res])
          /\ store' = [store EXCEPT ![bkIdx] =
                LET created == {e \in @ : e.Key # Key(bkApp, now)}
                                   \cup {BackupMetadata(Key(bkApp, now), bkApp, now)}
                IN  CASE res = "ok" -> created
                      [] res = "write failed" ->
                            PartialFileRemoved(created, Key(bkApp, now))
                      [] OTHER -> @]
          /\ IF res = "ok" \/ OnUploadError = "go on"
             THEN /\ bkPc' = "retention" /\ UNCHANGED << bkIdx, bkErr >>
             ELSE IF OnUploadError = "continue"
             THEN NextBackend
             ELSE /\ bkPc' = "done" /\ bkErr' = res /\ UNCHANGED bkIdx
    /\ UNCHANGED << now, bkApp, bkPolicy, retentionLog, lastPass >>
    /\ UNCHANGED << retryVars, jobVars, clientVars, webVars, zipVars, restoreVars, storeVars, classVars >>

\* ApplyRetention(ctx, backend, appName, policy) on backend b: the whole pass.
\* lastPass records what the backend saw of it.
ApplyRetention(b, appName, policy) ==
    \E listErr \in BOOLEAN :
        LET backups == {e \in store[b] : e.AppName = appName}
        IN  IF listErr \/ backups = {}
            THEN /\ lastPass' = [backend |-> b, app |-> appName, before |-> store[b],
                                 listed |-> IF listErr THEN {} ELSE backups,
                                 toKeep |-> {}, deleteCalls |-> {}, failed |-> {},
                                 deleted |-> 0, err |-> listErr]
                 /\ UNCHANGED store
            ELSE \E toKeep \in {selectBackupsToKeep(sorted, policy) :
                                    sorted \in SortedNewestFirst(backups)} :
                 \E targets \in {DeleteTargets(backups, toKeep)} :
                 \E failed \in SUBSET targets :
                 \E called \in DeleteCalls(targets, failed) :
                    /\ store' = [store EXCEPT ![b] =
                                    {e \in @ : e.Key \notin (called \ failed)}]
                    /\ lastPass' = [backend |-> b, app |-> appName,
                                    before |-> store[b], listed |-> backups,
                                    toKeep |-> toKeep, deleteCalls |-> called,
                                    failed |-> failed \cap called,
                                    deleted |-> Cardinality(called \ failed),
                                    err |-> FALSE]

\* Lines 179-186: the retention pass after a successful upload.
Retention ==
    /\ bkPc = "retention"
    /\ ApplyRetention(bkIdx, bkApp, bkPolicy)
    /\ retentionLog' = Append(retentionLog, bkIdx)
    /\ NextBackend
    /\ UNCHANGED << now, bkApp, bkPolicy, uploadLog >>
    /\ UNCHANGED << retryVars, jobVars, clientVars, webVars, zipVars, restoreVars, storeVars, classVars >>

NextBackup ==
    \/ AppBackup
    \/ Upload
    \/ Retention

----------------------------------------------------------------------------
(***************************************************************************)
(* Web UI job runner                                                       *)
(***************************************************************************)

\* Number of POST /api/backup submissions the model accepts.
MaxJobs == 2
\* Last reading of the server's clock.
MaxClock == 1
\* Jobs the server accepts while a WebSocket connection is followed.
MaxWSJobs == 1

\* Jobs the server accepts in a behaviour.
JobLimit == IF handlers = "ws" THEN MaxWSJobs ELSE MaxJobs

\* s.cfg.AppConfigs, by effective name.
AppConfigs == << "sonarr", "radarr" >>

\* Requests handleTriggerBackup accepts.
Requests ==
    {[All |-> TRUE, App |-> ""]}
        \cup {[All |-> FALSE, App |-> AppConfigs[i]] : i \in 1..Len(AppConfigs)}

Result(app, ok, error) == [App |-> app, OK |-> ok, Error |-> error]

\* sync.Mutex: Lock returns only when no goroutine holds the mutex.
\* A faulty variant: Lock returns at once.
MutexIgnored(mu) == TRUE
MutexFree(mu) == mu = 0

\* The positions between logCaptureMu.Lock() and the deferred Unlock().
PipelinePcs == {"target", "apps", "backup", "unlock"}

JobsIdle ==
    /\ jobs = << >> /\ jobPc = << >> /\ logCaptureMu = 0 /\ clock = -1

InitJobs ==
    /\ jobs = << >>
    /\ jobPc = << >>
    /\ logCaptureMu = 0
    /\ clock = 0

AdvanceClock ==
    /\ clock < MaxClock
    /\ clock' = clock + 1
    /\ UNCHANGED << jobs, jobPc, logCaptureMu >>
    /\ UNCHANGED << retryVars, backupVars, clientVars, webVars, zipVars, restoreVars, storeVars, classVars >>

\* startBackupJob: the job is stored under the id made from the clock and
\* its goroutine is spawned.
startBackupJob(req) ==
    /\ Len(jobPc) < JobLimit
    /\ post = Nil
    /\ LET id == clock
           job == [ID |-> id, StartedAt |-> clock, EndedAt |-> -1, Running |-> TRUE,
                   Success |-> "unset", Request |-> req, Results |-> << >>,
                   Logs |-> << << "", "Backup job started" >> >>]
       IN  /\ jobs' = [i \in DOMAIN jobs \cup {id} |-> IF i = id THEN job ELSE jobs[i]]
           /\ jobPc' = Append(jobPc, [id |-> id, pc |-> "preflight", targetApp |-> "",
                                      appIdx |-> 0, results |-> << >>])
           /\ post' = IF handlers = "http" THEN [id |-> id, copied |-> Nil] ELSE post
    /\ UNCHANGED << logCaptureMu, clock >>
    /\ UNCHANGED << handlers, snap, wsPc, wsId, wsHealthy, wsTicked >>
    /\ UNCHANGED << retryVars, backupVars, clientVars, zipVars, restoreVars, storeVars, classVars >>

\* A faulty variant: the running flag is left set.
finishJobStillRunning(id, success, results, logs) ==
    jobs' = IF id \in DOMAIN jobs
            THEN [jobs EXCEPT ![id] =
                    [@ EXCEPT !.Success = IF success THEN "true" ELSE "false",
                              !.Results = results,
                              !.EndedAt = clock,
                              !.Logs = @ \o logs]]
            ELSE jobs

\* finishJob(id, success, results, logs)
finishJob(id, success, results, logs) ==
    jobs' = IF id \in DOMAIN jobs
            THEN [jobs EXCEPT ![id] =
                    [@ EXCEPT !.Running = FALSE,
                              !.Success = IF success THEN "true" ELSE "false",
                              !.Results = results,
                              !.EndedAt = clock,
                              !.Logs = @ \o logs]]
            ELSE jobs

\* appendJobLog(id, line) and appendJobRawLog(id, line)
appendJobLog(js, id, line) ==
    IF id \in DOMAIN js THEN [js EXCEPT ![id].Logs = Append(@, line)] ELSE js

\* executeBackupJob, line 346: preflightCheck.
Preflight(g) ==
    /\ jobPc[g].pc = "preflight"
    /\ \E ok \in BOOLEAN :
          IF ok
          THEN /\ jobPc' = [jobPc EXCEPT ![g].pc = "lock"]
               /\ UNCHANGED jobs
          ELSE /\ finishJob(jobPc[g].id, FALSE, << >>, << << "", "Preflight failed" >> >>)
               /\ jobPc' = [jobPc EXCEPT ![g].pc = "done"]
    /\ UNCHANGED << logCaptureMu, clock >>
    /\ UNCHANGED << retryVars, backupVars, clientVars, webVars, zipVars, restoreVars, storeVars, classVars >>

\* Lines 351-353: logCaptureMu.Lock() and the redirection of the logger.
LockLogCapture(g) ==
    /\ jobPc[g].pc = "lock"
    /\ MutexFree(logCaptureMu)
    /\ logCaptureMu' = g
    /\ jobPc' = [jobPc EXCEPT ![g].pc = "target"]
    /\ UNCHANGED << jobs, clock >>
    /\ UNCHANGED << retryVars, backupVars, clientVars, webVars, zipVars, restoreVars, storeVars, classVars >>

\* Lines 359-370: the target app is read from the job's request.
ReadTarget(g) ==
    /\ jobPc[g].pc = "target"
    /\ LET id == jobPc[g].id
           target == IF id \in DOMAIN jobs /\ ~jobs[id].Request.All
                     THEN jobs[id].Request.App ELSE ""
       IN  jobPc' = [jobPc EXCEPT ![g].pc = "apps", ![g].targetApp = target, ![g].appIdx = 1]
    /\ UNCHANGED << jobs, logCaptureMu, clock >>
    /\ UNCHANGED << retryVars, backupVars, clientVars, webVars, zipVars, restoreVars, storeVars, classVars >>

\* Lines 372-381: the loop skips an app that is not the target, or logs the
\* start of its backup.
AppBegin(g) ==
    /\ jobPc[g].pc = "apps"
    /\ jobPc[g].appIdx <= Len(AppConfigs)
    /\ LET name == AppConfigs[jobPc[g].appIdx]
       IN  IF jobPc[g].targetApp # "" /\ name # jobPc[g].targetApp
           THEN /\ jobPc' = [jobPc EXCEPT ![g].appIdx = @ + 1]
                /\ UNCHANGED jobs
           ELSE /\ jobs' = appendJobLog(jobs, jobPc[g].id, << name, "Starting backup" >>)
                /\ jobPc' = [jobPc EXCEPT ![g].pc = "backup"]
    /\ UNCHANGED << logCaptureMu, clock >>
    /\ UNCHANGED << retryVars, backupVars, clientVars, webVars, zipVars, restoreVars, storeVars, classVars >>

\* What lines 383-406 record for an app: "" when createClient, createBackends
\* and runBackup all succeed, else the message of the failing call (the three
\* failing branches append the same result and differ in the message alone).
AppOutcomes == {"", "backup failed"}

\* Lines 383-406: createClient, createBackends and runBackup for the app; the
\* result is appended and logged.
AppEnd(g) ==
    /\ jobPc[g].pc = "backup"
    /\ LET name == AppConfigs[jobPc[g].appIdx]
       IN  \E msg \in AppOutcomes :
              /\ jobs' = appendJobLog(jobs, jobPc[g].id,
                            << name, IF msg = "" THEN "backup completed" ELSE msg >>)
              /\ jobPc' = [jobPc EXCEPT ![g].pc = "apps",
                                        ![g].appIdx = @ + 1,
                                        ![g].results = Append(@, Result(name, msg = "", msg))]
    /\ UNCHANGED << logCaptureMu, clock >>
    /\ UNCHANGED << retryVars, backupVars, clientVars, webVars, zipVars, restoreVars, storeVars, classVars >>

\* Lines 409-423: the job's success is computed and finishJob is called.
Finish(g) ==
    /\ jobPc[g].pc = "apps"
    /\ jobPc[g].appIdx > Len(AppConfigs)
    /\ LET results == jobPc[g].results
           success == \A i \in 1..Len(results) : results[i].OK
       IN  finishJob(jobPc[g].id, success, results,
                     << << "", IF success THEN "Backup job completed successfully"
                               ELSE "Backup job completed with failures" >> >>)
    /\ jobPc' = [jobPc EXCEPT ![g].pc = "unlock", ![g].targetApp = "",
                              ![g].appIdx = 0, ![g].results = << >>]
    /\ UNCHANGED << logCaptureMu, clock >>
    /\ UNCHANGED << retryVars, backupVars, clientVars, webVars, zipVars, restoreVars, storeVars, classVars >>

\* Lines 354-357: the deferred restore of the logger and Unlock().
UnlockLogCapture(g) ==
    /\ jobPc[g].pc = "unlock"
    /\ logCaptureMu' = 0
    /\ jobPc' = [jobPc EXCEPT ![g].pc = "done"]
    /\ UNCHANGED << jobs, clock >>
    /\ UNCHANGED << retryVars, backupVars, clientVars, webVars, zipVars, restoreVars, storeVars, classVars >>

NextJobs ==
    \/ AdvanceClock
    \/ \E req \in Requests : startBackupJob(req)
    \/ \E g \in DOMAIN jobPc : Preflight(g)
    \/ \E g \in DOMAIN jobPc : LockLogCapture(g)
    \/ \E g \in DOMAIN jobPc : ReadTarget(g)
    \/ \E g \in DOMAIN jobPc : AppBegin(g)
    \/ \E g \in DOMAIN jobPc : AppEnd(g)
    \/ \E g \in DOMAIN jobPc : Finish(g)
    \/ \E g \in DOMAIN jobPc : UnlockLogCapture(g)

----------------------------------------------------------------------------
(***************************************************************************)
(* Web UI handlers of the job API: POST and GET /api/backup, and the       *)
(* WebSocket of a job (unnamed/part_008)                                   *)
(***************************************************************************)

\* snapshotJob(job): the copy holds the values of the record's fields.
snapshotJob(job) ==
    [ID |-> job.ID, StartedAt |-> job.StartedAt, EndedAt |-> job.EndedAt,
     Running |-> job.Running, Success |-> job.Success, Request |-> job.Request,
     Results |-> job.Results, Logs |-> job.Logs]

\* getJob(id): the snapshot is taken between s.mu.RLock() and RUnlock().
getJob(id) == IF id \in DOMAIN jobs THEN snapshotJob(jobs[id]) ELSE Nil

\* A snapshot as a handler emits it.
Emitted(via, id, job) == [via |-> via, id |-> id, job |-> job]

WebIdle ==
    /\ handlers = "none" /\ post = Nil /\ snap = Nil
    /\ wsPc = "idle" /\ wsId = -1 /\ wsHealthy = TRUE /\ wsTicked = FALSE

\* The server takes POST and GET /api/backup.
InitHTTP ==
    /\ handlers = "http" /\ post = Nil /\ snap = Nil
    /\ wsPc = "idle" /\ wsId = -1 /\ wsHealthy = TRUE /\ wsTicked = FALSE

\* The server takes POST /api/backup and one WebSocket connection.
InitWS ==
    /\ handlers = "ws" /\ post = Nil /\ snap = Nil
    /\ wsPc = "idle" /\ wsId = -1 /\ wsHealthy = TRUE /\ wsTicked = FALSE

\* startBackupJob, line 342, first part: snapshotJob(job) copies the logs and
\* the results (lines 468-471). s.mu was released at line 339 and the job's
\* goroutine runs since line 341, so the steps of the copy interleave with
\* the goroutine's writes.
PostCopySlices ==
    /\ handlers = "http"
    /\ post # Nil /\ post.copied = Nil
    /\ post' = [post EXCEPT !.copied = [Logs |-> jobs[post.id].Logs,
                                        Results |-> jobs[post.id].Results]]
    /\ UNCHANGED << handlers, snap, wsPc, wsId, wsHealthy, wsTicked >>
    /\ UNCHANGED << retryVars, backupVars, jobVars, clientVars, zipVars, restoreVars, storeVars, classVars >>

\* startBackupJob, line 342, second part (lines 473-494), and the response
\* of handleTriggerBackup, line 226.
PostRespond ==
    /\ handlers = "http"
    /\ post # Nil /\ post.copied # Nil
    /\ snap' = Emitted("post", post.id,
                     [snapshotJob(jobs[post.id]) EXCEPT !.Logs = post.copied.Logs,
                                                        !.Results = post.copied.Results])
    /\ post' = Nil
    /\ UNCHANGED << handlers, wsPc, wsId, wsHealthy, wsTicked >>
    /\ UNCHANGED << retryVars, backupVars, jobVars, clientVars, zipVars, restoreVars, storeVars, classVars >>

\* handleTriggerBackup, GET: lines 228-240. An unknown id is answered 404
\* and no snapshot is emitted.
Poll(id) ==
    /\ handlers = "http"
    /\ getJob(id) # Nil
    /\ snap' = Emitted("poll", id, getJob(id))
    /\ UNCHANGED << handlers, post, wsPc, wsId, wsHealthy, wsTicked >>
    /\ UNCHANGED << retryVars, backupVars, jobVars, clientVars, zipVars, restoreVars, storeVars, classVars >>

\* writeSnapshot's verdict on a snapshot it wrote (lines 301-304).
\* A faulty variant: the connection is closed after any snapshot.
ContinueNever(resp) == FALSE
Continue(resp) == resp.Running

\* writeSnapshot (lines 289-305), then the caller's return or next round.
writeSnapshot ==
    \E written \in BOOLEAN :
        LET job == getJob(wsId)
        IN  IF job = Nil
            THEN /\ wsPc' = "closed" /\ wsHealthy' = FALSE /\ UNCHANGED snap
            ELSE IF ~written
            THEN /\ wsPc' = "closed" /\ wsHealthy' = FALSE /\ UNCHANGED snap
            ELSE /\ snap' = Emitted("ws", wsId, job)
                 /\ wsPc' = IF Continue(job) THEN "select" ELSE "closed"
                 /\ UNCHANGED wsHealthy

\* handleBackupWS, lines 252-287: the job exists and the connection is
\* upgraded; a failed upgrade ends the handler.
Connect(id) ==
    /\ handlers = "ws"
    /\ wsPc = "idle"
    /\ getJob(id) # Nil
    /\ \E upgraded \in BOOLEAN :
          IF upgraded
          THEN /\ wsPc' = "first" /\ wsId' = id /\ UNCHANGED wsHealthy
          ELSE /\ wsPc' = "closed" /\ wsId' = id /\ wsHealthy' = FALSE
    /\ UNCHANGED << handlers, post, snap, wsTicked >>
    /\ UNCHANGED << retryVars, backupVars, jobVars, clientVars, zipVars, restoreVars, storeVars, classVars >>

\* Lines 307-309: the first snapshot.
FirstSnapshot ==
    /\ wsPc = "first"
    /\ writeSnapshot
    /\ UNCHANGED << handlers, post, wsId, wsTicked >>
    /\ UNCHANGED << retryVars, backupVars, jobVars, clientVars, zipVars, restoreVars, storeVars, classVars >>

\* Lines 277-284 and 313-314: a read fails (the peer closed, or no pong came
\* within the deadline), done is closed and the handler returns.
ReaderDone ==
    /\ wsPc = "select"
    /\ wsPc' = "closed"
    /\ wsHealthy' = FALSE
    /\ UNCHANGED << handlers, post, snap, wsId, wsTicked >>
    /\ UNCHANGED << retryVars, backupVars, jobVars, clientVars, zipVars, restoreVars, storeVars, classVars >>

\* Lines 315-318: a tick, and the ping.
TickPing ==
    /\ wsPc = "select"
    /\ \E written \in BOOLEAN :
          IF written
          THEN /\ wsPc' = "tick" /\ UNCHANGED wsHealthy
          ELSE /\ wsPc' = "closed" /\ wsHealthy' = FALSE
    /\ UNCHANGED << handlers, post, snap, wsId, wsTicked >>
    /\ UNCHANGED << retryVars, backupVars, jobVars, clientVars, zipVars, restoreVars, storeVars, classVars >>

\* Lines 319-321: the snapshot of the tick.
TickSnapshot ==
    /\ wsPc = "tick"
    /\ writeSnapshot
    /\ wsTicked' = (wsTicked \/ wsHealthy')
    /\ UNCHANGED << handlers, post, wsId >>
    /\ UNCHANGED << retryVars, backupVars, jobVars, clientVars, zipVars, restoreVars, storeVars, classVars >>

NextHTTP ==
    \/ NextJobs
    \/ PostCopySlices
    \/ PostRespond
    \/ \E id \in DOMAIN jobs : Poll(id)

NextWS ==
    \/ NextJobs
    \/ \E id \in DOMAIN jobs : Connect(id)
    \/ FirstSnapshot
    \/ ReaderDone
    \/ TickPing
    \/ TickSnapshot

----------------------------------------------------------------------------
(***************************************************************************)
(* App clients: Backup of the Radarr and Prowlarr clients                  *)
(* (radarr/client.go)                                                      *)
(***************************************************************************)

\* Status polls one Backup call may make.
MaxPolls == 2
\* Seconds waitForCommand waits between two polls.
PollInterval == 2

\* The app clients of radarr/client.go.
ClientKinds == {"radarr", "prowlarr"}

\* ctx.Err() of the caller's context: "" while it is not done.
NotCancelled == ""
CtxErrors == {"context canceled", "context deadline exceeded"}

\* No error (a nil error), and an error chain built by fmt.Errorf("...: %w").
NoError == << >>
Wrap(msg, err) == << msg >> \o err
Cause(err) == err[Len(err)]

\* CommandResource.Status as a poll can report it; "nil" when it is absent.
CommandStatuses ==
    {"nil", "queued", "started", "completed", "failed", "aborted", "cancelled",
     "orphaned"}

\* A faulty variant: the Aborted case is missing from the switch.
waitVerdictNoAborted(status) ==
    CASE status = "completed" -> "return nil"
      [] status \in {"failed", "cancelled"} -> "return error"
      [] OTHER -> "wait"
\* The switch of waitForCommand on the status a poll returned.
waitVerdict(status) ==
    CASE status = "completed" -> "return nil"
      [] status \in {"failed", "cancelled", "aborted"} -> "return error"
      [] OTHER -> "wait"

\* fmt.Errorf of the failing cases of the switch.
commandError(status) ==
    CASE status = "failed" -> << "command failed" >>
      [] status = "cancelled" -> << "command was cancelled" >>
      [] OTHER -> << "command was aborted" >>

\* A faulty variant: the cancelled wait returns nil.
waitCancelledNil(ce) == NoError
\* case <-ctx.Done(): return ctx.Err()
waitCancelled(ce) == << ce >>

\* Cookie names a response can set, and sets of them a login response sets.
CookieAuth == << "R", "a", "d", "a", "r", "r", "A", "u", "t", "h" >>
CookieOther == << "s", "e", "s", "s", "i", "o", "n" >>
CookieSets == {{}, {CookieAuth}, {CookieOther}}
SuffixAuth == << "A", "u", "t", "h" >>

\* strings.HasSuffix(s, suffix)
HasSuffix(s, suffix) ==
    /\ Len(s) >= Len(suffix)
    /\ SubSeq(s, Len(s) - Len(suffix) + 1, Len(s)) = suffix

\* The loop of ProwlarrClient.loginWithForms over c.httpClient.Jar.Cookies.
hasAuthCookie(cookies) == \E c \in cookies : HasSuffix(c, SuffixAuth)

\* config.AuthenticationMethod as GET /config/host returns it.
AuthForms == << "f", "o", "r", "m", "s" >>
AuthFormsUpper == << "F", "o", "r", "m", "s" >>
AuthBasic == << "b", "a", "s", "i", "c" >>
AuthNone == << "n", "o", "n", "e" >>
AuthMethods == {AuthForms, AuthFormsUpper, AuthBasic, AuthNone}

\* Statuses of the login response.
LoginStatuses == {200, 302, 401, 500}

\* loginWithForms of the client of the given kind, from the status of the
\* login response and the cookies the jar holds after it: the error it
\* returns (NoError when the login counts as successful).
loginWithForms(kind, status, cookies) ==
    IF status = 401 THEN << "login failed: invalid credentials" >>
    ELSE IF status >= 400 THEN << "login failed with status" >>
    ELSE IF kind = "prowlarr" /\ ~hasAuthCookie(cookies)
    THEN << "login failed: no auth cookie received" >>
    ELSE NoError

\* Content-Type values of the download response and the test of lines 491-503.
ContentTypes == {"", "application/zip", "text/html"}
isValidType(contentType) ==
    contentType \in {"", "application/zip", "application/octet-stream",
                     "application/x-zip-compressed", "application/x-zip"}

ClientIdle ==
    /\ appKind = "none" /\ appPc = "idle" /\ appCtx = NotCancelled
    /\ appTimer = 0 /\ appReqs = << >> /\ appPolls = 0 /\ appStatus = "none"
    /\ appJar = {} /\ authMethod = << >> /\ loginStatus = 0
    /\ loginErr = NoError /\ appErr = NoError /\ appExit = "none"

InitClient ==
    /\ appKind \in ClientKinds /\ appPc = "command" /\ appCtx = NotCancelled
    /\ appTimer = 0 /\ appReqs = << >> /\ appPolls = 0 /\ appStatus = "none"
    /\ appJar = {} /\ authMethod = << >> /\ loginStatus = 0
    /\ loginErr = NoError /\ appErr = NoError /\ appExit = "none"

\* Backup returns err (nil at the end of a successful run).
BackupFails(err, where) ==
    /\ appPc' = "done"
    /\ appErr' = err
    /\ appExit' = where

\* What an HTTP call returns when the request cannot be completed: the
\* context's error when the context is done (the request is then not sent).
TransportError == IF appCtx # NotCancelled THEN appCtx ELSE "connection refused"

\* The caller cancels the context, or its deadline passes.
CancelBackup ==
    /\ appPc \notin {"idle", "done"}
    /\ appCtx = NotCancelled
    /\ appCtx' \in CtxErrors
    /\ UNCHANGED << appKind, appPc, appTimer, appReqs, appPolls, appStatus, appJar,
                    authMethod, loginStatus, loginErr, appErr, appExit >>
    /\ UNCHANGED << retryVars, backupVars, jobVars, webVars, zipVars, restoreVars, storeVars, classVars >>

\* runBackupCommand up to the call of waitForCommand: POST /command.
runBackupCommand ==
    /\ appPc = "command"
    /\ IF appCtx # NotCancelled
       THEN /\ BackupFails(Wrap("backup command failed",
                                Wrap("failed to send command", << TransportError >>)),
                           "command")
            /\ UNCHANGED appReqs
       ELSE /\ appReqs' = Append(appReqs, "command")
            /\ \E res \in {"ok", "failed to send command", "API error",
                           "failed to decode command response",
                           "command response has no ID"} :
                  IF res = "ok"
                  THEN /\ appPc' = "poll" /\ UNCHANGED << appErr, appExit >>
                  ELSE BackupFails(Wrap("backup command failed", << res >>), "command")
    /\ UNCHANGED << appKind, appCtx, appTimer, appPolls, appStatus, appJar,
                    authMethod, loginStatus, loginErr >>
    /\ UNCHANGED << retryVars, backupVars, jobVars, webVars, zipVars, restoreVars, storeVars, classVars >>

\* One turn of the loop of waitForCommand: GET /command/{id} and the switch
\* on the status.
pollCommand ==
    /\ appPc = "poll"
    /\ IF appCtx # NotCancelled
       THEN /\ BackupFails(Wrap("backup command failed",
                                Wrap("failed to get command status", << TransportError >>)),
                           "poll")
            /\ UNCHANGED << appReqs, appPolls, appStatus, appTimer >>
       ELSE /\ appPolls < MaxPolls
            /\ appReqs' = Append(appReqs, "poll")
            /\ appPolls' = appPolls + 1
            /\ \/ /\ \E res \in {"failed to get command status",
                                 "failed to decode command status"} :
                        BackupFails(Wrap("backup command failed", << res >>), "poll")
                  /\ UNCHANGED << appStatus, appTimer >>
               \/ \E status \in CommandStatuses :
                     /\ appStatus' = status
                     /\ CASE waitVerdict(status) = "return nil" ->
                                /\ appPc' = "list"
                                /\ UNCHANGED << appErr, appExit, appTimer >>
                          [] waitVerdict(status) = "return error" ->
                                /\ BackupFails(Wrap("backup command failed",
                                                    commandError(status)), "status")
                                /\ UNCHANGED appTimer
                          [] OTHER ->
                                /\ appPc' = "wait"
                                /\ appTimer' = PollInterval
                                /\ UNCHANGED << appErr, appExit >>
    /\ UNCHANGED << appKind, appCtx, appJar, authMethod, loginStatus, loginErr >>
    /\ UNCHANGED << retryVars, backupVars, jobVars, webVars, zipVars, restoreVars, storeVars, classVars >>

\* A second of the wait passes.
WaitTick ==
    /\ appPc = "wait"
    /\ appTimer > 0
    /\ appTimer' = appTimer - 1
    /\ UNCHANGED << appKind, appPc, appCtx, appReqs, appPolls, appStatus, appJar,
                    authMethod, loginStatus, loginErr, appErr, appExit >>
    /\ UNCHANGED << retryVars, backupVars, jobVars, webVars, zipVars, restoreVars, storeVars, classVars >>

\* case <-time.After(2 * time.Second): the loop polls again.
WaitElapsed ==
    /\ appPc = "wait"
    /\ appTimer = 0
    /\ appPc' = "poll"
    /\ UNCHANGED << appKind, appCtx, appTimer, appReqs, appPolls, appStatus, appJar,
                    authMethod, loginStatus, loginErr, appErr, appExit >>
    /\ UNCHANGED << retryVars, backupVars, jobVars, webVars, zipVars, restoreVars, storeVars, classVars >>

\* case <-ctx.Done(): waitForCommand returns, and so does Backup.
WaitCancelled ==
    /\ appPc = "wait"
    /\ appCtx # NotCancelled
    /\ LET err == waitCancelled(appCtx)
       IN  IF err = NoError
           THEN /\ appPc' = "list" /\ UNCHANGED << appErr, appExit >>
           ELSE BackupFails(Wrap("backup command failed", err), "waitCancel")
    /\ UNCHANGED << appKind, appCtx, appTimer, appReqs, appPolls, appStatus, appJar,
                    authMethod, loginStatus, loginErr >>
    /\ UNCHANGED << retryVars, backupVars, jobVars, webVars, zipVars, restoreVars, storeVars, classVars >>

\* getBackupFiles, the choice of the latest backup and the path test at the
\* head of downloadBackup.
getBackupFiles ==
    /\ appPc = "list"
    /\ IF appCtx # NotCancelled
       THEN /\ BackupFails(Wrap("failed to get backup files",
                                Wrap("failed to get backups", << TransportError >>)), "list")
            /\ UNCHANGED appReqs
       ELSE /\ appReqs' = Append(appReqs, "list")
            /\ \E res \in {"ok", "failed to get backups", "API error",
                           "failed to decode backups response", "no backups",
                           "empty path"} :
                  CASE res = "ok" -> /\ appPc' = "host" /\ UNCHANGED << appErr, appExit >>
                    [] res = "no backups" ->
                         BackupFails(<< "no backup files found after backup command" >>,
                                     "list")
                    [] res = "empty path" ->
                         BackupFails(Wrap("failed to download backup",
                                          << "backup path is empty" >>), "list")
                    [] OTHER ->
                         BackupFails(Wrap("failed to get backup files", << res >>), "list")
    /\ UNCHANGED << appKind, appCtx, appTimer, appPolls, appStatus, appJar,
                    authMethod, loginStatus, loginErr >>
    /\ UNCHANGED << retryVars, backupVars, jobVars, webVars, zipVars, restoreVars, storeVars, classVars >>

\* getAuthMethod and the switch of downloadBackup on it.
getAuthMethod ==
    /\ appPc = "host"
    /\ IF appCtx # NotCancelled
       THEN /\ BackupFails(Wrap("failed to download backup",
                             Wrap("failed to get auth method", << TransportError >>)),
                           "host")
            /\ UNCHANGED << appReqs, authMethod >>
       ELSE /\ appReqs' = Append(appReqs, "host")
            /\ \/ /\ \E res \in {"failed to get host config", "API error",
                                 "failed to decode host config"} :
                        BackupFails(Wrap("failed to download backup",
                                      Wrap("failed to get auth method", << res >>)),
                                    "host")
                  /\ UNCHANGED authMethod
               \/ \E m \in AuthMethods :
                     /\ authMethod' = m
                     /\ appPc' = IF ToLower(m) = AuthForms THEN "login" ELSE "download"
                     /\ UNCHANGED << appErr, appExit >>
    /\ UNCHANGED << appKind, appCtx, appTimer, appPolls, appStatus, appJar,
                    loginStatus, loginErr >>
    /\ UNCHANGED << retryVars, backupVars, jobVars, webVars, zipVars, restoreVars, storeVars, classVars >>

\* loginWithForms as downloadBackup calls it: POST /login; the jar keeps the
\* cookies of the response.
Login ==
    /\ appPc = "login"
    /\ IF appCtx # NotCancelled
       THEN /\ loginErr' = Wrap("login request failed", << TransportError >>)
            /\ UNCHANGED << appReqs, appJar, loginStatus >>
       ELSE /\ appReqs' = Append(appReqs, "login")
            /\ \/ /\ loginErr' = << "login request failed" >>
                  /\ UNCHANGED << appJar, loginStatus >>
               \/ \E status \in LoginStatuses, cookies \in CookieSets :
                     /\ appJar' = appJar \cup cookies
                     /\ loginStatus' = status
                     /\ loginErr' = loginWithForms(appKind, status, appJar')
    /\ IF loginErr' = NoError
       THEN /\ appPc' = "download" /\ UNCHANGED << appErr, appExit >>
       ELSE BackupFails(Wrap("failed to download backup",
                             Wrap("forms login failed", loginErr')), "login")
    /\ UNCHANGED << appKind, appCtx, appTimer, appPolls, appStatus, authMethod >>
    /\ UNCHANGED << retryVars, backupVars, jobVars, webVars, zipVars, restoreVars, storeVars, classVars >>

\* The rest of downloadBackup: GET of the backup file and the tests of the
\* response.
downloadBackup ==
    /\ appPc = "download"
    /\ IF appCtx # NotCancelled
       THEN /\ BackupFails(Wrap("failed to download backup",
                             Wrap("failed to download backup", << TransportError >>)),
                           "download")
            /\ UNCHANGED appReqs
       ELSE /\ appReqs' = Append(appReqs, "download")
            /\ \/ \E res \in {"failed to download backup", "download error"} :
                     BackupFails(Wrap("failed to download backup", << res >>), "download")
               \/ \E contentType \in ContentTypes :
                     IF isValidType(contentType)
                     THEN /\ appPc' = "read" /\ UNCHANGED << appErr, appExit >>
                     ELSE BackupFails(Wrap("failed to download backup",
                                           << "unexpected content type" >>), "download")
    /\ UNCHANGED << appKind, appCtx, appTimer, appPolls, appStatus, appJar,
                    authMethod, loginStatus, loginErr >>
    /\ UNCHANGED << retryVars, backupVars, jobVars, webVars, zipVars, restoreVars, storeVars, classVars >>

\* io.ReadAll of the download, and what follows it: nothing for Prowlarr,
\* getDatabaseType and the PostgreSQL dumps for Radarr.
ReadBackup ==
    /\ appPc = "read"
    /\ \/ BackupFails(<< "failed to read backup data" >>, "read") /\ UNCHANGED appReqs
       \/ /\ appKind = "prowlarr"
          /\ BackupFails(NoError, "ok")
          /\ UNCHANGED appReqs
       \/ /\ appKind = "radarr"
          /\ appReqs' = IF appCtx # NotCancelled THEN appReqs
                        ELSE Append(appReqs, "status")
          /\ \E res \in {"ok", "failed to parse postgres config",
                         "failed to dump postgres databases",
                         "failed to create enhanced backup"} :
                /\ (res # "ok" => appCtx = NotCancelled)
                /\ IF res = "ok" THEN BackupFails(NoError, "ok")
                   ELSE BackupFails(<< res >>, "enrich")
    /\ UNCHANGED << appKind, appCtx, appTimer, appPolls, appStatus, appJar,
                    authMethod, loginStatus, loginErr >>
    /\ UNCHANGED << retryVars, backupVars, jobVars, webVars, zipVars, restoreVars, storeVars, classVars >>

NextClient ==
    \/ CancelBackup
    \/ runBackupCommand
    \/ pollCommand
    \/ WaitTick
    \/ WaitElapsed
    \/ WaitCancelled
    \/ getBackupFiles
    \/ getAuthMethod
    \/ Login
    \/ downloadBackup
    \/ ReadBackup

----------------------------------------------------------------------------
(***************************************************************************)
(* Enrichment of an artifact with database dumps, and their extraction     *)
(* (internal/backup/postgres.go)                                           *)
(***************************************************************************)

\* Entries a ZIP of the model holds at most.
MaxEntries == 2

\* File names are sequences of pieces of text.
PrefixPostgres == << "postgres/" >>
SuffixSql == << ".sql" >>
ConfigXml == << "config", ".xml" >>

\* strings.HasPrefix(s, prefix) and strings.TrimPrefix(s, prefix)
HasPrefix(s, prefix) ==
    /\ Len(s) >= Len(prefix)
    /\ SubSeq(s, 1, Len(prefix)) = prefix
TrimPrefix(s, prefix) ==
    IF HasPrefix(s, prefix) THEN SubSeq(s, Len(prefix) + 1, Len(s)) ELSE s

\* strings.ReplaceAll(s, old, new), for pieces of one character
ReplaceAll(s, old, new) == [i \in DOMAIN s |-> IF s[i] = old THEN new ELSE s[i]]

\* The database names of config.xml (<PostgresMainDb>, <PostgresLogDb>).
MainDbName == << "radarr", "-", "main" >>
LogDbName == << "radarr", "-", "log" >>

\* The file name DumpAllDatabases gives the dump of a database.
DumpFileName(db) == ReplaceAll(db, "-", "_") \o SuffixSql

\* The names of the dumps of DumpAllDatabases, and contents of files.
DumpNames == {DumpFileName(MainDbName), DumpFileName(LogDbName)}
FileData == {"X", "Y"}

\* A ZIP entry, and the entries the ZIPs of the model are made of.
Entry(name, data) == [name |-> name, data |-> data]
ZipEntries ==
    {Entry(n, d) : n \in {ConfigXml, PrefixPostgres \o << "notes" >>}
                         \cup {PrefixPostgres \o f : f \in DumpNames},
                   d \in FileData}
Zips == UNION {[1..n -> ZipEntries] : n \in 0..MaxEntries}

\* Dump maps: file name -> bytes.
DumpMaps == UNION {[names -> FileData] : names \in SUBSET DumpNames}

\* The orders a range over a Go map can take.
RECURSIVE Orders(_)
Orders(keys) ==
    IF keys = {} THEN {<< >>}
    ELSE UNION {{<< k >> \o rest : rest \in Orders(keys \ {k})} : k \in keys}

\* CreateEnhancedBackup(originalZip, pgDumps), the dumps ranged over in the
\* given order: the entries of the original, then one entry per dump.
CreateEnhancedBackup(originalZip, pgDumps, order) ==
    originalZip \o [i \in 1..Len(order) |->
                        Entry(PrefixPostgres \o order[i], pgDumps[order[i]])]

\* The entries ExtractPostgresDumpsFromZip takes: postgres/*.sql.
IsDumpEntry(e) == HasPrefix(e.name, PrefixPostgres) /\ HasSuffix(e.name, SuffixSql)

\* A faulty variant: a name already in the map is not stored again.
ExtractFirstOfName(zipData) ==
    LET at == {i \in 1..Len(zipData) : IsDumpEntry(zipData[i])}
        names == {TrimPrefix(zipData[i].name, PrefixPostgres) : i \in at}
        first(n) == CHOOSE i \in at :
                        /\ TrimPrefix(zipData[i].name, PrefixPostgres) = n
                        /\ \A j \in at :
                              TrimPrefix(zipData[j].name, PrefixPostgres) = n => i <= j
    IN  [n \in names |-> zipData[first(n)].data]

\* ExtractPostgresDumpsFromZip(zipData): dumps[filename] = data for each
\* entry in turn, so the last entry of a name is the one returned.
ExtractPostgresDumpsFromZip(zipData) ==
    LET at == {i \in 1..Len(zipData) : IsDumpEntry(zipData[i])}
        names == {TrimPrefix(zipData[i].name, PrefixPostgres) : i \in at}
        last(n) == CHOOSE i \in at :
                        /\ TrimPrefix(zipData[i].name, PrefixPostgres) = n
                        /\ \A j \in at :
                              TrimPrefix(zipData[j].name, PrefixPostgres) = n => j <= i
    IN  [n \in names |-> zipData[last(n)].data]

ZipIdle ==
    /\ zZip = << >> /\ zDumps = << >> /\ zOut = Nil /\ zGot = Nil /\ zPc = "idle"

InitZip ==
    /\ zZip \in Zips
    /\ zDumps \in DumpMaps
    /\ zOut = Nil /\ zGot = Nil
    /\ zPc = "start"

\* A call of CreateEnhancedBackup(zZip, zDumps).
Enhance ==
    /\ zPc = "start"
    /\ \E order \in Orders(DOMAIN zDumps) :
          zOut' = CreateEnhancedBackup(zZip, zDumps, order)
    /\ zPc' = "enhanced"
    /\ UNCHANGED << zZip, zDumps, zGot >>
    /\ UNCHANGED << retryVars, backupVars, jobVars, clientVars, webVars, restoreVars, storeVars, classVars >>

\* A call of ExtractPostgresDumpsFromZip on the enhanced ZIP.
Extract ==
    /\ zPc = "enhanced"
    /\ zGot' = ExtractPostgresDumpsFromZip(zOut)
    /\ zPc' = "done"
    /\ UNCHANGED << zZip, zDumps, zOut >>
    /\ UNCHANGED << retryVars, backupVars, jobVars, clientVars, webVars, restoreVars, storeVars, classVars >>

NextZip ==
    \/ Enhance
    \/ Extract

----------------------------------------------------------------------------
(***************************************************************************)
(* Restore of an app client (radarr/client.go)                             *)
(***************************************************************************)

\* The fields of backup.PostgresConfig.
PgFields == {"Host", "Port", "User", "Password", "MainDB", "LogDB"}

\* The settings of a config.xml that has a <PostgresHost>.
ParsedConfig ==
    [Host |-> << "db.local" >>, Port |-> << "5432" >>, User |-> << "radarr" >>,
     Password |-> << "secret" >>, MainDB |-> MainDbName, LogDB |-> LogDbName]

\* The values an operator's override can give; the empty string leaves a
\* field unset.
OverrideValues ==
    [Host |-> << "db.remote" >>, Port |-> << "6543" >>, User |-> << "admin" >>,
     Password |-> << "other" >>, MainDB |-> << "copy", "_", "main" >>,
     LogDB |-> << "copy", "-", "log" >>]
Overrides ==
    {Nil} \cup {[f \in PgFields |-> IF f \in set THEN OverrideValues[f] ELSE << >>] :
                  set \in SUBSET PgFields}

\* Contents of config.xml: without and with postgres settings.
ConfigSqlite == "sqlite"
ConfigPostgres == "postgres"

\* The artifacts handed to Restore: an app's ZIP (with or without config.xml),
\* as it is or enriched by CreateEnhancedBackup.
RestoreZips ==
    UNION {UNION {{CreateEnhancedBackup(base, [n \in names |-> "X"], order) :
                      order \in Orders(names)} :
                  names \in SUBSET DumpNames} :
           base \in {<< >>, << Entry(ConfigXml, ConfigSqlite) >>,
                     << Entry(ConfigXml, ConfigPostgres) >>}}

\* ParsePostgresConfigFromZip(zipData): an error without config.xml, nil
\* without <PostgresHost>, the settings otherwise.
ParseFailed == [kind |-> "error"]
ParsePostgresConfigFromZip(zipData) ==
    IF \A i \in 1..Len(zipData) : zipData[i].name # ConfigXml THEN ParseFailed
    ELSE LET i == CHOOSE j \in 1..Len(zipData) : zipData[j].name = ConfigXml
         IN  IF zipData[i].data = ConfigPostgres THEN ParsedConfig ELSE Nil

\* The fields of the override that Restore and Backup look at.
RestoreOverrideFields == {"Host", "Port", "User", "Password"}
BackupOverrideFields == PgFields

\* The override applied over the parsed settings, field by field.
ApplyOverride(pgConfig, pgOverride, fields) ==
    IF pgOverride = Nil THEN pgConfig
    ELSE [f \in PgFields |->
             IF f \in fields /\ pgOverride[f] # << >> THEN pgOverride[f]
             ELSE pgConfig[f]]

\* DumpAllDatabases on the settings c: for each file name of the returned
\* map, the database whose dump it holds; the dump of LogDB is stored after
\* that of MainDB.
DumpAllDatabases(c) ==
    LET databases == << c.MainDB, c.LogDB >>
        at == {i \in 1..Len(databases) : databases[i] # << >>}
        last(n) == CHOOSE i \in at :
                       /\ DumpFileName(databases[i]) = n
                       /\ \A j \in at : DumpFileName(databases[j]) = n => j <= i
    IN  [n \in {DumpFileName(databases[i]) : i \in at} |-> databases[last(n)]]

\* The settings RadarrClient.Backup dumps with, for the app's ZIP and the
\* client's override: Nil when there are none.
BackupConfig(backupData, pgOverride) ==
    LET pgConfig == ParsePostgresConfigFromZip(backupData)
    IN  IF pgConfig # Nil THEN ApplyOverride(pgConfig, pgOverride, BackupOverrideFields)
        ELSE pgOverride

\* The artifacts RadarrClient.Backup makes of an app's ZIP when the app
\* uses PostgreSQL.
BackupArtifacts(pgOverride) ==
    UNION {LET c == BackupConfig(base, pgOverride)
           IN  IF c = Nil THEN {base}
               ELSE {CreateEnhancedBackup(base, [n \in DOMAIN DumpAllDatabases(c) |-> "X"],
                                          order) :
                        order \in Orders(DOMAIN DumpAllDatabases(c))} :
           base \in {<< Entry(ConfigXml, ConfigSqlite) >>,
                     << Entry(ConfigXml, ConfigPostgres) >>}}

\* The database RestoreAllDatabases restores a dump file into.
RestoreTarget(c, filename) ==
    IF c.MainDB # << >> /\ filename = DumpFileName(c.MainDB) /\
       ~(c.LogDB # << >> /\ filename = DumpFileName(c.LogDB)) THEN c.MainDB
    ELSE IF c.LogDB # << >> /\ filename = DumpFileName(c.LogDB) THEN c.LogDB
    ELSE ReplaceAll(SubSeq(filename, 1, Len(filename) - Len(SuffixSql)), "_", "-")

\* A faulty variant: a missing RestartRequired counts as true.
RestartRequiredUnlessFalse(body) == body # "false"

\* result.RestartRequired after json Decode of the response body.
RestartRequired(body) == body = "true"

\* resp.StatusCode in 200..299
StatusOK(status) == status >= 200 /\ status < 300

\* What Do gives: a response, or an error and no response.
Answered(status, body) == [err |-> "", status |-> status, body |-> body]
NoResponse == [err |-> "connection refused", status |-> 0, body |-> ""]
ResponseStatuses == {200, 204, 500}
ResponseBodies == {"true", "false", "unparsable"}
PathUpload == "/system/backup/restore/upload"
PathRestart == "/system/restart"

RestoreIdle ==
    /\ rsKind = "none" /\ rsPc = "idle" /\ rsZip = << >> /\ rsOverride = Nil
    /\ rsConfig = Nil /\ rsRestored = << >> /\ rsReqs = << >> /\ rsErr = NoError

InitRestore ==
    /\ rsKind \in ClientKinds
    /\ rsOverride \in IF rsKind = "radarr" THEN Overrides ELSE {Nil}
    /\ rsZip \in RestoreZips \cup BackupArtifacts(rsOverride)
    /\ rsConfig = Nil /\ rsRestored = << >> /\ rsReqs = << >> /\ rsErr = NoError
    /\ rsPc = "read"

\* A faulty variant: the error is noted and Restore goes on to the upload.
RestoreGoesOn(err) ==
    /\ rsErr' = err
    /\ rsPc' = "upload"

\* Restore returns err.
RestoreFails(err) ==
    /\ rsErr' = err
    /\ rsPc' = "done"

\* io.ReadAll(backupData)
ReadBackupData ==
    /\ rsPc = "read"
    /\ \/ RestoreFails(Wrap("failed to read backup data", << "read error" >>))
       \/ /\ rsPc' = IF rsKind = "radarr" THEN "databases" ELSE "upload"
          /\ UNCHANGED rsErr
    /\ UNCHANGED << rsKind, rsZip, rsOverride, rsConfig, rsRestored, rsReqs >>
    /\ UNCHANGED << retryVars, backupVars, jobVars, clientVars, webVars, zipVars, storeVars, classVars >>

\* RadarrClient.Restore from ExtractPostgresDumpsFromZip to
\* RestoreAllDatabases: the dumps are restored in the order of a range over
\* the map, and the first RestoreDatabase that fails ends Restore.
RestoreDatabases ==
    /\ rsPc = "databases"
    /\ LET pgDumps == ExtractPostgresDumpsFromZip(rsZip)
           parsed == ParsePostgresConfigFromZip(rsZip)
           pgConfig == ApplyOverride(parsed, rsOverride, RestoreOverrideFields)
       IN  IF DOMAIN pgDumps = {}
           THEN /\ rsPc' = "upload"
                /\ UNCHANGED << rsConfig, rsRestored, rsErr >>
           ELSE IF parsed = ParseFailed
           THEN /\ RestoreFails(Wrap("failed to parse postgres config from backup",
                                      << "config.xml not found in backup" >>))
                /\ UNCHANGED << rsConfig, rsRestored >>
           ELSE IF parsed = Nil
           THEN /\ RestoreFails(<< "backup contains postgres dumps but config.xml has no postgres settings" >>)
                /\ UNCHANGED << rsConfig, rsRestored >>
           ELSE /\ rsConfig' = pgConfig
                /\ \E order \in Orders(DOMAIN pgDumps), n \in 1..Cardinality(DOMAIN pgDumps),
                      ok \in BOOLEAN :
                      /\ ok => n = Len(order)
                      /\ rsRestored' =
                             [i \in 1..n |->
                                 [file |-> order[i],
                                  db |-> RestoreTarget(pgConfig, order[i]),
                                  data |-> pgDumps[order[i]],
                                  ok |-> ok \/ i < n]]
                      /\ IF ok
                         THEN rsPc' = "upload" /\ UNCHANGED rsErr
                         ELSE RestoreFails(Wrap("failed to restore postgres databases",
                                                << "failed to restore" >>))
    /\ UNCHANGED << rsKind, rsZip, rsOverride, rsReqs >>
    /\ UNCHANGED << retryVars, backupVars, jobVars, clientVars, webVars, zipVars, storeVars, classVars >>

\* The multipart POST of zipData in the field "restore", and what Restore
\* does with the response.
UploadRestore ==
    /\ rsPc = "upload"
    /\ \/ /\ rsReqs' = Append(rsReqs, [path |-> PathUpload, restore |-> rsZip,
                                        resp |-> NoResponse])
          /\ RestoreFails(Wrap("failed to upload backup", << NoResponse.err >>))
       \/ \E status \in ResponseStatuses, body \in ResponseBodies :
             /\ rsReqs' = Append(rsReqs, [path |-> PathUpload, restore |-> rsZip,
                                          resp |-> Answered(status, body)])
             /\ IF ~StatusOK(status)
                THEN RestoreFails(<< "restore upload failed" >>)
                ELSE /\ rsPc' = IF RestartRequired(body) THEN "restart" ELSE "done"
                     /\ UNCHANGED rsErr
    /\ UNCHANGED << rsKind, rsZip, rsOverride, rsConfig, rsRestored >>
    /\ UNCHANGED << retryVars, backupVars, jobVars, clientVars, webVars, zipVars, storeVars, classVars >>

\* c.restart(ctx) at the end of Restore.
RestartAfterRestore ==
    /\ rsPc = "restart"
    /\ \E resp \in {NoResponse} \cup {Answered(status, "") : status \in ResponseStatuses} :
          /\ rsReqs' = Append(rsReqs, [path |-> PathRestart, restore |-> << >>,
                                       resp |-> resp])
          /\ rsErr' = IF resp.err # ""
                         THEN Wrap("failed to restart after restore",
                                   Wrap("failed to send restart command", << resp.err >>))
                      ELSE IF ~StatusOK(resp.status)
                         THEN Wrap("failed to restart after restore",
                                   << "restart command failed" >>)
                      ELSE NoError
    /\ rsPc' = "done"
    /\ UNCHANGED << rsKind, rsZip, rsOverride, rsConfig, rsRestored >>
    /\ UNCHANGED << retryVars, backupVars, jobVars, clientVars, webVars, zipVars, storeVars, classVars >>

NextRestore ==
    \/ ReadBackupData
    \/ RestoreDatabases
    \/ UploadRestore
    \/ RestartAfterRestore

----------------------------------------------------------------------------
(***************************************************************************)
(* App names and backup keys: the upload of runBackup on a backend, and    *)
(* the commands that list the app's backups (cmd/backuparr/main.go,        *)
(* unnamed/part_000, unnamed/part_008, storage/pbs/pbs.go)                 *)
(***************************************************************************)

\* AppConfig.AppType and AppConfig.Name ("" when the config gives no name).
AppTypes == {"radarr", "prowlarr", "sidecar"}
AppNames == {"", "movies", "radarr"}
AppConfig(appType, name) == [AppType |-> appType, Name |-> name]

\* Name() of the client createClient builds for an app.
ClientName(ac) ==
    CASE ac.AppType = "radarr" -> "radarr"
      [] ac.AppType = "prowlarr" -> "prowlarr"
      [] ac.AppType = "sidecar" -> IF ac.Name = "" THEN "sidecar" ELSE ac.Name

\* The name findAppConfig compares with --app: Name, or AppType without one.
EffectiveName(ac) == IF ac.Name = "" THEN ac.AppType ELSE ac.Name

\* findAppConfig(cfg, appName): the position of the first match, 0 for none.
findAppConfig(apps, appName) ==
    IF \E i \in 1..Len(apps) : EffectiveName(apps[i]) = appName
    THEN CHOOSE i \in 1..Len(apps) :
            /\ EffectiveName(apps[i]) = appName
            /\ \A j \in 1..(i - 1) : EffectiveName(apps[j]) # appName
    ELSE 0

\* Seconds of the model's clock, and their renderings: time.RFC3339 and the
\* layout "2006-01-02T150405Z" of FormatBackupName.
StoreSeconds == 1..3
RFC3339 == << "2025-01-01T09:30:01Z", "2025-01-01T09:30:02Z", "2025-01-01T09:30:03Z" >>
NameStamp == << "2025-01-01T093001Z", "2025-01-01T093002Z", "2025-01-01T093003Z" >>
\* The second an earlier backup was taken at, and the second of the upload.
EarlierSecond == 1
UploadSecond == 2

\* FormatBackupName(appName, t)
FormatBackupName(appName, t) == << appName, "_", NameStamp[t], ".zip" >>

\* filepath.Join(b.basePath, appName) and filepath.Join(dir, fileName)
BasePath == "./backups"
LocalDir(appName) == << BasePath, "/", appName >>
LocalPath(appName, fileName) == LocalDir(appName) \o << "/" >> \o fileName

\* What a backend holds: a file of the local backend, a snapshot of PBS.
LocalFile(appName, t) ==
    [path |-> LocalPath(appName, FormatBackupName(appName, t)), time |-> t]
Snapshot(id, t) == [type |-> "host", id |-> id, time |-> t]
StoredObject(kind, appName, t) ==
    IF kind = "local" THEN LocalFile(appName, t) ELSE Snapshot(appName, t)

\* host/<backup-id>/<RFC3339 time>
SnapshotPath(id, t) == << "host", "/", id, "/", RFC3339[t] >>

\* parseSnapshotFromOutput(output, appName): the snapshot that the line
\* "Starting backup: ..." of the output names, "" without such a line for
\* the app.
parseSnapshotFromOutput(output, appName) ==
    IF HasPrefix(output, << "host", "/", appName, "/" >>) THEN output ELSE << >>

\* The key PBSBackend.Upload returns: the parsed snapshot, else one made
\* from time.Now() when the client has returned.
pbsUploadKey(output, appName, nowSecond) ==
    IF parseSnapshotFromOutput(output, appName) # << >>
    THEN parseSnapshotFromOutput(output, appName)
    ELSE SnapshotPath(appName, nowSecond)

\* The key under which List reports an object.
ListedKey(kind, o) == IF kind = "local" THEN o.path ELSE SnapshotPath(o.id, o.time)

\* backend.List(ctx, appName): the .zip files of the app's directory, or
\* the host snapshots with the app's backup-id.
List(kind, objects, appName) ==
    LET mine(o) ==
            IF kind = "local"
            THEN /\ HasPrefix(o.path, LocalDir(appName) \o << "/" >>)
                 /\ HasSuffix(o.path, << ".zip" >>)
                 /\ \A i \in (Len(LocalDir(appName)) + 2)..Len(o.path) : o.path[i] # "/"
            ELSE o.type = "host" /\ o.id = appName
    IN  {[Key |-> ListedKey(kind, o), AppName |-> appName, CreatedAt |-> o.time] :
            o \in {x \in objects : mine(x)}}

\* Download and Delete find the object a key names, if there is one.
ObjectsOfKey(kind, objects, key) == {o \in objects : ListedKey(kind, o) = key}

\* The app the run is for, and the name the commands are given for it.
RunApp == stApps[stRun]

StoreIdle ==
    /\ stApps = << >> /\ stRun = 0 /\ stKind = "none" /\ stObjects = {}
    /\ stStored = Nil /\ stMeta = Nil /\ stLists = Nil /\ stCalls = << >>
    /\ stPc = "idle"

InitStore ==
    /\ stApps \in [1..2 -> {AppConfig(t, n) : t \in AppTypes, n \in AppNames}]
    /\ stRun \in 1..2
    /\ stKind \in {"local", "pbs"}
    /\ stObjects \in {{}, {StoredObject(stKind, ClientName(RunApp), EarlierSecond)}}
    /\ stStored = Nil /\ stMeta = Nil
    /\ stLists = [list |-> Nil, restore |-> Nil, web |-> Nil]
    /\ stCalls = << >>
    /\ stPc = "upload"

\* runBackup, lines 168-177: backend.Upload(ctx, app.Name(), fileName, ...).
\* The PBS client prints the snapshot it starts or does not, and returns
\* within the second or in the next.
StoreUpload ==
    /\ stPc = "upload"
    /\ LET appName == ClientName(RunApp)
           stored == StoredObject(stKind, appName, UploadSecond)
       IN  \/ /\ UNCHANGED << stObjects, stStored, stMeta >>
           \/ /\ stKind = "local"
              /\ stObjects' = stObjects \cup {stored}
              /\ stStored' = stored
              /\ stMeta' = [Key |-> LocalPath(appName, FormatBackupName(appName, UploadSecond)),
                            AppName |-> appName]
           \/ /\ stKind = "pbs"
              /\ \E output \in {SnapshotPath(appName, UploadSecond), << >>},
                    nowSecond \in {UploadSecond, UploadSecond + 1} :
                    stMeta' = [Key |-> pbsUploadKey(output, appName, nowSecond),
                               AppName |-> appName]
              /\ stObjects' = stObjects \cup {stored}
              /\ stStored' = stored
    /\ stPc' = "uploaded"
    /\ UNCHANGED << stApps, stRun, stKind, stLists, stCalls >>
    /\ UNCHANGED << retryVars, backupVars, jobVars, clientVars, webVars, zipVars,
                    restoreVars, classVars >>

\* A command given --app <the app's effective name>: findAppConfig, then
\* backend.List(ctx, appName) with the name as given.
ListFor(command) ==
    /\ stPc = "uploaded"
    /\ stLists[command] = Nil
    /\ findAppConfig(stApps, EffectiveName(RunApp)) # 0
    /\ stLists' = [stLists EXCEPT
                      ![command] = [listed |-> List(stKind, stObjects, EffectiveName(RunApp))]]
    /\ UNCHANGED << stApps, stRun, stKind, stObjects, stStored, stMeta, stCalls, stPc >>
    /\ UNCHANGED << retryVars, backupVars, jobVars, clientVars, webVars, zipVars,
                    restoreVars, classVars >>

\* backuparr list --app <name>
runListCLI == ListFor("list")
\* backuparr restore --app <name> --latest, up to the choice of the key
runRestoreCLI == ListFor("restore")
\* GET /api/backups?app=<name>
handleBackups == ListFor("web")

\* backend.Download(ctx, key) and backend.Delete(ctx, key) with the key of
\* the metadata Upload returned.
UseKey(op) ==
    /\ stPc = "uploaded"
    /\ stMeta # Nil
    /\ \A i \in 1..Len(stCalls) : stCalls[i].op # op
    /\ LET found == ObjectsOfKey(stKind, stObjects, stMeta.Key)
       IN  /\ stCalls' = Append(stCalls, [op |-> op, key |-> stMeta.Key,
                                          held |-> stStored \in stObjects,
                                          ok |-> found # {}])
           /\ stObjects' = IF op = "Delete" THEN stObjects \ found ELSE stObjects
    /\ UNCHANGED << stApps, stRun, stKind, stStored, stMeta, stLists, stPc >>
    /\ UNCHANGED << retryVars, backupVars, jobVars, clientVars, webVars, zipVars,
                    restoreVars, classVars >>

Download == UseKey("Download")
Delete == UseKey("Delete")

NextStore ==
    \/ StoreUpload
    \/ runListCLI
    \/ runRestoreCLI
    \/ handleBackups
    \/ Download
    \/ Delete

----------------------------------------------------------------------------
(***************************************************************************)
(* One listing under one policy: the labels of the UI and the keep set of  *)
(* a retention pass (unnamed/part_004)                                     *)
(***************************************************************************)

\* Largest number of fields a policy of this component sets.
MaxFields == 2

ClassPolicies ==
    {p \in [Fields -> 0..MaxKeep] : Cardinality({f \in Fields : p[f] > 0}) <= MaxFields}

\* The listings: what List returns for an app of a backend's contents, in
\* any order.
ClassListings ==
    UNION {Orders({e \in c : e.AppName = a}) : c \in StoreChoices, a \in Apps}

\* sort.Slice with the comparison CreatedAt.After, on the copy of a listing
\* of at most 12 entries: an insertion sort, in which an entry moves towards
\* the front past the entries that are older than it.
RECURSIVE SortSlice(_)
SortSlice(backups) ==
    IF backups = << >> THEN << >>
    ELSE LET n == Len(backups)
             b == backups[n]
             sorted == SortSlice(SubSeq(backups, 1, n - 1))
             stay == Cardinality({i \in 1..(n - 1) : sorted[i].CreatedAt >= b.CreatedAt})
         IN  SubSeq(sorted, 1, stay) \o << b >> \o SubSeq(sorted, stay + 1, n - 1)

\* The inner loop of ClassifyRetentionBuckets for one bucketDef, from
\* position i of the sorted listing on.
RECURSIVE labelByBucket(_, _, _, _, _, _)
labelByBucket(sorted, count, label, i, seen, labels) ==
    IF i > Len(sorted) THEN labels
    ELSE LET bucket == Buckets[label][sorted[i].CreatedAt]
             labelled == [labels EXCEPT ![sorted[i].Key] = Append(@, label)]
         IN  IF bucket \notin seen
             THEN IF Cardinality(seen \cup {bucket}) >= count
                  THEN labelled
                  ELSE labelByBucket(sorted, count, label, i + 1, seen \cup {bucket},
                                     labelled)
             ELSE labelByBucket(sorted, count, label, i + 1, seen, labels)

\* The loop over defs, from the d-th bucketDef on: one with count <= 0 is
\* skipped.
RECURSIVE labelByDefs(_, _, _, _)
labelByDefs(sorted, defs, d, labels) ==
    IF d > Len(defs) THEN labels
    ELSE labelByDefs(sorted, defs, d + 1,
             IF defs[d].count <= 0 THEN labels
             ELSE labelByBucket(sorted, defs[d].count, defs[d].label, 1, {}, labels))

\* A faulty variant: the KeepLast loop is left out.
ClassifyWithoutLatest(backups, policy) ==
    LET sorted == SortSlice(backups)
        defs == << [count |-> policy.KeepHourly, label |-> "hourly"],
                   [count |-> policy.KeepDaily, label |-> "daily"],
                   [count |-> policy.KeepWeekly, label |-> "weekly"],
                   [count |-> policy.KeepMonthly, label |-> "monthly"],
                   [count |-> policy.KeepYearly, label |-> "yearly"] >>
    IN  labelByDefs(sorted, defs, 1,
                    [k \in {backups[i].Key : i \in 1..Len(backups)} |-> << >>])

\* ClassifyRetentionBuckets(backups, policy): key -> labels.
ClassifyRetentionBuckets(backups, policy) ==
    LET sorted == SortSlice(backups)
        latest == {sorted[i].Key : i \in {j \in 1..Len(sorted) : j <= policy.KeepLast}}
        defs == << [count |-> policy.KeepHourly, label |-> "hourly"],
                   [count |-> policy.KeepDaily, label |-> "daily"],
                   [count |-> policy.KeepWeekly, label |-> "weekly"],
                   [count |-> policy.KeepMonthly, label |-> "monthly"],
                   [count |-> policy.KeepYearly, label |-> "yearly"] >>
    IN  labelByDefs(sorted, defs, 1,
                    [k \in {backups[i].Key : i \in 1..Len(backups)} |->
                        IF k \in latest THEN << "latest" >> ELSE << >>])

ClassIdle ==
    /\ clBackups = << >> /\ clPolicy = Nil /\ clLabels = Nil /\ clKeep = Nil

InitClass ==
    /\ clBackups \in ClassListings
    /\ clPolicy \in ClassPolicies
    /\ clLabels = Nil
    /\ clKeep = Nil

\* handleBackups, GET: the listing is classified under the app's policy.
Classify ==
    /\ clPolicy # Nil
    /\ clLabels = Nil
    /\ clLabels' = [labels |-> ClassifyRetentionBuckets(clBackups, clPolicy)]
    /\ UNCHANGED << clBackups, clPolicy, clKeep >>
    /\ UNCHANGED << retryVars, backupVars, jobVars, clientVars, webVars, zipVars,
                    restoreVars, storeVars >>

\* ApplyRetention, line 32: the keep set of the same listing and policy.
Select ==
    /\ clPolicy # Nil
    /\ clKeep = Nil
    /\ clKeep' = [keys |-> selectBackupsToKeep(SortSlice(clBackups), clPolicy)]
    /\ UNCHANGED << clBackups, clPolicy, clLabels >>
    /\ UNCHANGED << retryVars, backupVars, jobVars, clientVars, webVars, zipVars,
                    restoreVars, storeVars >>

NextClass ==
    \/ Classify
    \/ Select

----------------------------------------------------------------------------
(***************************************************************************)
(* Specifications                                                          *)
(***************************************************************************)

\* What does not run in a behaviour of one component.
NoWeb == WebIdle /\ ZipIdle /\ RestoreIdle /\ StoreIdle /\ ClassIdle
\* One RoundTrip call; nothing else runs.
RetryOnly == InitRetry /\ BackupIdle /\ JobsIdle /\ ClientIdle /\ NoWeb
\* One runBackup call; nothing else runs.
BackupOnly == RetryIdle /\ InitBackup /\ JobsIdle /\ ClientIdle /\ NoWeb
\* The web server's job runner; nothing else runs.
JobsOnly == RetryIdle /\ BackupIdle /\ InitJobs /\ ClientIdle /\ NoWeb
\* One Backup call of an app client; nothing else runs.
ClientOnly == RetryIdle /\ BackupIdle /\ JobsIdle /\ InitClient /\ NoWeb
\* The job runner with the POST and GET handlers of /api/backup.
HTTPOnly ==
    /\ RetryIdle /\ BackupIdle /\ InitJobs /\ ClientIdle /\ InitHTTP /\ ZipIdle
    /\ RestoreIdle /\ StoreIdle /\ ClassIdle
\* The job runner with one WebSocket connection.
WSOnly ==
    /\ RetryIdle /\ BackupIdle /\ InitJobs /\ ClientIdle /\ InitWS /\ ZipIdle
    /\ RestoreIdle /\ StoreIdle /\ ClassIdle
\* One enrichment of a ZIP and the extraction of its dumps.
ZipOnly ==
    /\ RetryIdle /\ BackupIdle /\ JobsIdle /\ ClientIdle /\ WebIdle /\ InitZip
    /\ RestoreIdle /\ StoreIdle /\ ClassIdle
\* One Restore call of an app client; nothing else runs.
RestoreOnly ==
    /\ RetryIdle /\ BackupIdle /\ JobsIdle /\ ClientIdle /\ WebIdle /\ ZipIdle
    /\ InitRestore /\ StoreIdle /\ ClassIdle
\* One upload of runBackup on a backend and the commands that list it.
StoreOnly ==
    /\ RetryIdle /\ BackupIdle /\ JobsIdle /\ ClientIdle /\ WebIdle /\ ZipIdle
    /\ RestoreIdle /\ InitStore /\ ClassIdle
\* One listing, classified for the UI and selected for a retention pass.
ClassOnly ==
    /\ RetryIdle /\ BackupIdle /\ JobsIdle /\ ClientIdle /\ WebIdle /\ ZipIdle
    /\ RestoreIdle /\ StoreIdle /\ InitClass

SpecRetry == RetryOnly /\ [][NextRetry]_vars
SpecBackup == BackupOnly /\ [][NextBackup]_vars
SpecJobs == JobsOnly /\ [][NextJobs]_vars
SpecClient == ClientOnly /\ [][NextClient]_vars
SpecHTTP == HTTPOnly /\ [][NextHTTP]_vars
SpecWS == WSOnly /\ [][NextWS]_vars
SpecZip == ZipOnly /\ [][NextZip]_vars
SpecRestore == RestoreOnly /\ [][NextRestore]_vars
SpecStore == StoreOnly /\ [][NextStore]_vars
SpecClass == ClassOnly /\ [][NextClass]_vars

\* The job runner when no goroutine of a job stops for ever: every call a job
\* makes returns, and a goroutine that can take a step is scheduled.
executeBackupJob(g) ==
    \/ Preflight(g)
    \/ LockLogCapture(g)
    \/ ReadTarget(g)
    \/ AppBegin(g)
    \/ AppEnd(g)
    \/ Finish(g)
    \/ UnlockLogCapture(g)
JobProgress(g) == WF_vars(g \in DOMAIN jobPc /\ executeBackupJob(g))
\* The submissions are requests for all apps, the longest pipeline.
NextJobsLive ==
    \/ AdvanceClock
    \/ startBackupJob([All |-> TRUE, App |-> ""])
    \/ \E g \in DOMAIN jobPc : Preflight(g)
    \/ \E g \in DOMAIN jobPc : LockLogCapture(g)
    \/ \E g \in DOMAIN jobPc : ReadTarget(g)
    \/ \E g \in DOMAIN jobPc : AppBegin(g)
    \/ \E g \in DOMAIN jobPc : AppEnd(g)
    \/ \E g \in DOMAIN jobPc : Finish(g)
    \/ \E g \in DOMAIN jobPc : UnlockLogCapture(g)
SpecJobsLive ==
    JobsOnly /\ [][NextJobsLive]_vars /\ \A g \in 1..MaxJobs : JobProgress(g)

Init ==
    \/ RetryOnly \/ BackupOnly \/ JobsOnly \/ ClientOnly \/ HTTPOnly \/ WSOnly
    \/ ZipOnly \/ RestoreOnly \/ StoreOnly \/ ClassOnly
Next ==
    \/ rtPc # "idle" /\ NextRetry
    \/ bkPc # "idle" /\ NextBackup
    \/ clock >= 0 /\ handlers = "none" /\ NextJobs
    \/ appPc # "idle" /\ NextClient
    \/ handlers = "http" /\ NextHTTP
    \/ handlers = "ws" /\ NextWS
    \/ zPc # "idle" /\ NextZip
    \/ rsPc # "idle" /\ NextRestore
    \/ stPc # "idle" /\ NextStore
    \/ clPolicy # Nil /\ NextClass
Spec == Init /\ [][Next]_vars

----------------------------------------------------------------------------
(***************************************************************************)
(* Properties of the retry transport                                       *)
(***************************************************************************)

\* The outcome o of an attempt as the (resp, err) pair RoundTrip would return.
AsReturn(o) == IF o.kind = "err" THEN Return(Nil, o) ELSE Return(o, Nil)

\* o is an error matching no retryable pattern, or a response whose status is
\* none of 429, 502, 503, 504.
Final(o) ==
    \/ o.kind = "err" /\ \A k \in 1..Len(retryable) : ~Contains(ToLower(o.msg), retryable[k])
    \/ o.kind = "resp" /\ o.status \notin {429, 502, 503, 504}

\* C4: one RoundTrip call invokes the base transport at most MaxRetries+1
\* times, and exactly MaxRetries+1 times when it leaves with its budget spent.
C4_AttemptBudget ==
    /\ calls <= rt.MaxRetries + 1
    /\ (exit = "exhausted" => calls = rt.MaxRetries + 1)

\* C5: when the retry budget is exhausted RoundTrip returns the outcome of
\* the most recent attempt, error or response.
C5_ReturnsMostRecent ==
    exit = "exhausted" => ret = AsReturn(lastOutcome)

C9_ZeroRetriesOneAttempt ==
    rt.MaxRetries = 0 => calls <= 1

\* C10: every attempt of a request that has a body carries a body
\* byte-identical to the original request body.
C10_BodyIdenticalOnEveryAttempt ==
    (rtPc = "inflight" /\ reqBody # Nil) => Unread(attemptBody) = reqBody.data

C10_Witness ==
    /\ rtPc = "inflight" /\ calls = 2 /\ reqBody # Nil
    /\ Len(reqBody.data) = 2 /\ consumed = 1

\* The base delay in effect: the configured one, or the default of 2 s.
BaseDelayInEffect == IF rt.BaseDelay > 0 THEN rt.BaseDelay ELSE DefaultBaseDelay

\* d doubled n times.
RECURSIVE Doubled(_, _)
Doubled(d, n) == IF n = 0 THEN d ELSE 2 * Doubled(d, n - 1)

\* C29: the wait set before retry k is the base delay doubled k-1 times,
\* and a retry begins only from a wait that has elapsed: between a
\* retryable outcome and the next attempt lies the whole wait.
C29_BackoffDoublesAndIsWaitedOut ==
    /\ [][(rtPc # "sleep" /\ rtPc' = "sleep")
              => timer' = Doubled(BaseDelayInEffect, attempt)]_vars
    /\ [][attempt' # attempt =>
              \/ rtPc = "sleep" /\ timer = 0 /\ attempt' = attempt + 1
              \/ rtPc' = "done"]_vars
    /\ [][calls' # calls =>
              /\ calls' = calls + 1 /\ rtPc = "top" /\ attempt = calls
              /\ ~CtxDone(ctxErr)]_vars
    /\ [](rtPc = "sleep" => timer \in {0, Doubled(BaseDelayInEffect, attempt)})

\* The wait before the third retry, four times the base delay.
C29_Witness ==
    /\ rtPc = "sleep" /\ attempt = 2 /\ calls = 3
    /\ rt.BaseDelay = 1 /\ timer = 4

----------------------------------------------------------------------------
(***************************************************************************)
(* Properties of runBackup and ApplyRetention                              *)
(***************************************************************************)

\* C1: ApplyRetention calls Delete only on keys that the backend's List(app)
\* returned and that are outside the keep set; no kept key is deleted.
C1_DeletesOnlyUnkeptListedKeys ==
    lastPass # Nil =>
        /\ \A k \in lastPass.deleteCalls :
                /\ \E e \in lastPass.before : e.Key = k /\ e.AppName = lastPass.app
                /\ k \notin lastPass.toKeep
        /\ \A e \in lastPass.before :
                e.Key \in lastPass.toKeep => e \in store[lastPass.backend]

C1_Witness ==
    /\ lastPass # Nil
    /\ lastPass.toKeep # {}
    /\ lastPass.deleteCalls # {}
    /\ lastPass.failed # lastPass.deleteCalls
    /\ \E e \in lastPass.before : e.AppName # lastPass.app

\* C2: given the artifact, runBackup attempts one Upload on every backend,
\* in the declared order, whether or not earlier uploads failed.
C2_UploadsEveryBackendInOrder ==
    /\ \A i \in 1..Len(uploadLog) : uploadLog[i].backend = i
    /\ Len(uploadLog) <= NumBackends
    /\ (bkPc = "done" /\ bkIdx > 0) => Len(uploadLog) = NumBackends

C2_Witness ==
    /\ bkPc = "done"
    /\ Len(uploadLog) = NumBackends
    /\ ~uploadLog[1].ok
    /\ uploadLog[NumBackends].ok

\* The count a policy holds for a time dimension.
KeepOf(policy, dim) ==
    CASE dim = "hourly" -> policy.KeepHourly
      [] dim = "daily" -> policy.KeepDaily
      [] dim = "weekly" -> policy.KeepWeekly
      [] dim = "monthly" -> policy.KeepMonthly
      [] dim = "yearly" -> policy.KeepYearly

\* The passes that reached selectBackupsToKeep.
Selected == lastPass # Nil /\ ~lastPass.err /\ lastPass.listed # {}

\* The buckets of a dimension that hold a listed backup, and the count most
\* recent of them.
BucketsHeld(dim) == {Buckets[dim][b.CreatedAt] : b \in lastPass.listed}
RecentBuckets(dim, count) ==
    {k \in BucketsHeld(dim) : Cardinality({o \in BucketsHeld(dim) : o > k}) < count}

TimeDimensionsZero(policy) == \A dim \in Dimensions : KeepOf(policy, dim) = 0

Min(a, b) == IF a < b THEN a ELSE b

\* C20: with every time dimension zero the keep set holds min(KeepLast, n)
\* of the n listed backups and no backup left out is newer than a kept one:
\* nothing when KeepLast is 0, everything when KeepLast exceeds n.
C20_KeepLastOnlyKeepsNewest ==
    (Selected /\ TimeDimensionsZero(bkPolicy)) =>
        LET kept == {b \in lastPass.listed : b.Key \in lastPass.toKeep}
        IN  /\ lastPass.toKeep = {b.Key : b \in kept}
            /\ Cardinality(kept) = Min(bkPolicy.KeepLast, Cardinality(lastPass.listed))
            /\ \A b \in kept : \A o \in lastPass.listed \ kept : o.CreatedAt <= b.CreatedAt
            /\ bkPolicy.KeepLast = 0 => lastPass.toKeep = {}
            /\ bkPolicy.KeepLast > Cardinality(lastPass.listed)
                    => kept = lastPass.listed

\* A pass that keeps the newest backup of three or more and deletes the rest.
C20_Witness ==
    /\ Selected /\ TimeDimensionsZero(bkPolicy)
    /\ bkPolicy.KeepLast = 1
    /\ Cardinality(lastPass.listed) >= 3
    /\ Cardinality(lastPass.toKeep) = 1
    /\ Cardinality(lastPass.deleteCalls) >= 2

C22_FailedDeleteDoesNotStopPass ==
    Selected =>
        /\ lastPass.deleteCalls =
              {b.Key : b \in {x \in lastPass.listed : x.Key \notin lastPass.toKeep}}
        /\ lastPass.deleted = Cardinality(lastPass.deleteCalls \ lastPass.failed)
        /\ \A b \in lastPass.listed :
              b.Key \in lastPass.deleteCalls =>
                  (b \in store[lastPass.backend] <=> b.Key \in lastPass.failed)

\* A pass with three Delete calls of which one failed.
C22_Witness ==
    /\ Selected
    /\ Cardinality(lastPass.deleteCalls) = 3
    /\ Cardinality(lastPass.failed) = 1
    /\ lastPass.deleted = 2

\* C23: a run that returns an error has stored the artifact on no backend;
\* a run that stored it on at least one backend returns nil.
C23_FailedOnlyIfStoredNowhere ==
    bkPc = "done" =>
        /\ bkErr # NoErr => \A i \in 1..Len(uploadLog) : ~uploadLog[i].ok
        /\ (\E i \in 1..Len(uploadLog) : uploadLog[i].ok) => bkErr = NoErr

\* A run with a stored and a failed upload that returned nil.
C23_Witness ==
    /\ bkPc = "done" /\ bkErr = NoErr
    /\ Len(uploadLog) = NumBackends
    /\ uploadLog[1].ok
    /\ \E i \in 1..Len(uploadLog) : ~uploadLog[i].ok

HasPositiveField(policy) == \E f \in Fields : policy[f] > 0

C32_AllUploadsFailedIsAnError ==
    (/\ bkPc = "done" /\ Len(uploadLog) = NumBackends
     /\ \A i \in 1..Len(uploadLog) : ~uploadLog[i].ok)
        => bkErr # NoErr

----------------------------------------------------------------------------
(***************************************************************************)
(* Properties of the job runner                                            *)
(***************************************************************************)

\* C3: at most one job is inside its backup pipeline; while a job runs an
\* app backup, every other job is still waiting or has finished.
C3_OneJobAtATime ==
    \A g, h \in DOMAIN jobPc :
        (g # h /\ jobPc[g].pc \in PipelinePcs) =>
            /\ jobPc[h].pc \notin PipelinePcs
            /\ (jobPc[g].pc = "backup" => jobPc[h].pc \in {"preflight", "lock", "done"})

C3_Witness ==
    \E g, h \in DOMAIN jobPc :
        /\ g < h
        /\ jobPc[g].pc = "backup"
        /\ jobPc[h].pc = "lock"
        /\ jobPc[g].id # jobPc[h].id

\* C34: again and again every job accepted so far has running = false and
\* its goroutine has ended; so a job that is accepted, be it waiting for the
\* pipeline behind another job, reaches running = false.
C34_AcceptedJobFinishes ==
    []<>(\A g \in DOMAIN jobPc :
            /\ jobPc[g].pc = "done"
            /\ jobPc[g].id \in DOMAIN jobs
            /\ ~jobs[jobPc[g].id].Running)

\* A job that waited for the pipeline behind another has finished.
C34_Witness ==
    \E g, h \in DOMAIN jobPc :
        /\ g < h /\ jobPc[g].id # jobPc[h].id
        /\ jobPc[g].pc = "done" /\ jobPc[h].pc = "done"
        /\ ~jobs[jobPc[h].id].Running
        /\ Len(jobs[jobPc[h].id].Results) > 0

\* C35: once a job's running flag is false, no step appends a line to its
\* log buffer.
C35_NoLogAfterRunningFalse ==
    [][\A id \in DOMAIN jobs :
          (~jobs[id].Running /\ id \in DOMAIN jobs') =>
              Len(jobs'[id].Logs) <= Len(jobs[id].Logs)]_vars

\* C36: any two accepted submissions have distinct job ids, so each has
\* a record of its own in the job map.
C36_AcceptedJobsHaveDistinctIds ==
    \A g, h \in DOMAIN jobPc : g # h => jobPc[g].id # jobPc[h].id

----------------------------------------------------------------------------
(***************************************************************************)
(* Properties of the app clients                                           *)
(***************************************************************************)

\* Request i of the Backup call is the enumeration of the backups or the
\* download of one.
IsFetch(i) == appReqs[i] \in {"list", "download"}

\* C11: the enumeration and download requests are sent only after a poll
\* has returned Completed, which is then the last poll; a poll that
\* returns Failed, Cancelled or Aborted ends Backup with an error, and no
\* enumeration or download request is sent.
C11_FetchOnlyAfterCompleted ==
    /\ (\E i \in DOMAIN appReqs : IsFetch(i)) => appStatus = "completed"
    /\ \A i, j \in DOMAIN appReqs : (appReqs[i] = "poll" /\ IsFetch(j)) => i < j
    /\ appStatus \in {"failed", "cancelled", "aborted"} =>
            /\ appPc = "done"
            /\ appErr # NoError
            /\ \A i \in DOMAIN appReqs : ~IsFetch(i)

C11_Witness ==
    /\ appPc = "done" /\ appErr = NoError /\ appPolls = 2
    /\ \E i \in DOMAIN appReqs : appReqs[i] = "download"

\* C12: under forms authentication, once the login response has arrived
\* (with a status below 400), the login counts as successful exactly when
\* the jar holds a cookie whose name ends in Auth; when it does not,
\* Backup ends with the login's error and no download request is sent.
C12_LoginSuccessIffAuthCookie ==
    (loginStatus # 0 /\ loginStatus < 400) =>
        /\ (loginErr = NoError) <=> hasAuthCookie(appJar)
        /\ ~hasAuthCookie(appJar) =>
                /\ appPc = "done"
                /\ \E k \in DOMAIN appErr : appErr[k] = "forms login failed"
                /\ \A i \in DOMAIN appReqs : appReqs[i] # "download"

\* C13: a pending status starts a wait of 2 seconds and the next poll is
\* sent only when it has passed; a wait cut short by the cancellation of
\* the context ends Backup with the context's error, and no request is sent
\* once the context is cancelled.
C13_RepollAfterWaitUnlessCancelled ==
    /\ [][(appPc # "wait" /\ appPc' = "wait") => appTimer' = PollInterval]_vars
    /\ [][(appPolls > 0 /\ appPolls' > appPolls) =>
            (waitVerdict(appStatus) = "wait" /\ appTimer = 0)]_vars
    /\ [][(appPc = "wait" /\ appTimer > 0 /\ appPc' # "wait") =>
            /\ appCtx # NotCancelled
            /\ appPc' = "done"
            /\ appErr' # NoError /\ Cause(appErr') = appCtx]_vars
    /\ [][appCtx # NotCancelled => appReqs' = appReqs]_vars

C13_Witness ==
    /\ appPc = "done" /\ appExit = "waitCancel" /\ appTimer = 1 /\ appPolls = 2
    /\ Cause(appErr) = "context deadline exceeded"

----------------------------------------------------------------------------
(***************************************************************************)
(* Properties of the web UI's jobs and of their snapshots                  *)
(***************************************************************************)

\* The number of configured apps a request targets.
Targeted(req) ==
    IF req.All THEN Len(AppConfigs)
    ELSE Cardinality({i \in 1..Len(AppConfigs) : AppConfigs[i] = req.App})

\* finishJob has run on the job.
Completed(job) == job.EndedAt # -1

\* C14: every completed job has endedAt >= startedAt, running = false, its
\* success set, and as many results as its request targets apps.
C14_CompletedJobShape ==
    \A id \in DOMAIN jobs :
        Completed(jobs[id]) =>
            /\ jobs[id].EndedAt >= jobs[id].StartedAt
            /\ ~jobs[id].Running
            /\ jobs[id].Success # "unset"
            /\ Len(jobs[id].Results) = Targeted(jobs[id].Request)

\* C15: once a job's running flag is false, its results and its started and
\* ended timestamps stay as they are in every later step.
C15_FinishedJobFrozen ==
    [][\A id \in DOMAIN jobs :
          ~jobs[id].Running =>
              /\ id \in DOMAIN jobs'
              /\ jobs'[id].Results = jobs[id].Results
              /\ jobs'[id].StartedAt = jobs[id].StartedAt
              /\ jobs'[id].EndedAt = jobs[id].EndedAt]_vars

\* s is t, or t without some of its last elements.
IsPrefix(s, t) == Len(s) <= Len(t) /\ SubSeq(t, 1, Len(s)) = s

\* C16: a step changes a job's log buffer only by appending to it, and the
\* logs of a snapshot a poll or a WebSocket message carried are a prefix of
\* the job's log buffer from then on.
C16_ReadersSeePrefixes ==
    /\ [][\A id \in DOMAIN jobs :
             id \in DOMAIN jobs' /\ IsPrefix(jobs[id].Logs, jobs'[id].Logs)]_vars
    /\ [](snap # Nil /\ snap.via \in {"poll", "ws"} =>
             /\ snap.id \in DOMAIN jobs
             /\ IsPrefix(snap.job.Logs, jobs[snap.id].Logs))

\* C17: every snapshot a handler emits is a copy of the job record as it is
\* at one instant: no write to the record falls between two reads of the
\* copy.
C17_SnapshotsAreCoherentCopies ==
    [][snap' # snap => snap'.job = jobs[snap'.id]]_vars

\* C18: the handler first writes the current snapshot; on a tick it writes
\* a fresh one after the ping; it leaves its loop between ticks only when a
\* read failed; and when it closes a connection on which nothing failed,
\* the last snapshot written has running = false.
C18_FinalSnapshotNotRunning ==
    /\ [][(wsPc \in {"first", "tick"} /\ wsPc' # wsPc /\ wsHealthy')
              => snap' = Emitted("ws", wsId, getJob(wsId))]_vars
    /\ [][(wsPc = "select" /\ wsPc' = "closed") => ~wsHealthy']_vars
    /\ [][(snap' # snap /\ snap'.job.Running) => wsPc' = "select"]_vars
    /\ []((wsPc = "closed" /\ wsHealthy) =>
            snap # Nil /\ snap.via = "ws" /\ snap.id = wsId /\ ~snap.job.Running)

\* A connection that got its first snapshot while the job ran, was served
\* ticks, and was closed after the snapshot of the finished job.
C18_Witness ==
    /\ wsPc = "closed" /\ wsHealthy /\ wsTicked
    /\ snap # Nil /\ ~snap.job.Running
    /\ snap.job.Success = "true"
    /\ Len(snap.job.Results) = Len(AppConfigs)

----------------------------------------------------------------------------
(***************************************************************************)
(* Properties of enrichment and restore                                    *)
(***************************************************************************)

\* The names, without postgres/, of the dump entries of a ZIP.
DumpEntryNames(zip) ==
    {TrimPrefix(zip[i].name, PrefixPostgres) :
        i \in {j \in 1..Len(zip) : IsDumpEntry(zip[j])}}

\* C27 as stated: extraction from the enhanced ZIP gives every dump of D
\* under its name with its bytes, and every postgres/*.sql entry of Z under
\* its name with its bytes, and nothing else.
C27_ExtractOfEnhanceIsUnion ==
    zPc = "done" =>
        /\ DOMAIN zGot = DOMAIN zDumps \cup DumpEntryNames(zZip)
        /\ \A n \in DOMAIN zDumps : zGot[n] = zDumps[n]
        /\ \A i \in 1..Len(zZip) :
              IsDumpEntry(zZip[i]) =>
                  zGot[TrimPrefix(zZip[i].name, PrefixPostgres)] = zZip[i].data

\* C27, amended: the enhanced ZIP holds the entries of Z followed by the
\* dumps of D; extraction gives every dump of D under its name with its
\* bytes, and a postgres/*.sql entry of Z under its name with its bytes
\* unless D or a later entry of Z has that name, and nothing else.
C27_ExtractOfEnhanceLastOfNameWins ==
    zPc = "done" =>
        /\ Len(zOut) = Len(zZip) + Cardinality(DOMAIN zDumps)
        /\ SubSeq(zOut, 1, Len(zZip)) = zZip
        /\ DOMAIN zGot = DOMAIN zDumps \cup DumpEntryNames(zZip)
        /\ \A n \in DOMAIN zDumps : zGot[n] = zDumps[n]
        /\ \A i \in 1..Len(zZip) :
              (/\ IsDumpEntry(zZip[i])
               /\ TrimPrefix(zZip[i].name, PrefixPostgres) \notin DOMAIN zDumps
               /\ \A j \in (i + 1)..Len(zZip) : zZip[j].name # zZip[i].name)
                  => zGot[TrimPrefix(zZip[i].name, PrefixPostgres)] = zZip[i].data

\* A dump of D has the name of a postgres entry of Z with other bytes, next
\* to an entry of Z that no dump of D shadows.
C27_Witness ==
    /\ zPc = "done" /\ Len(zZip) = 2
    /\ \E i, j \in 1..Len(zZip) :
          /\ IsDumpEntry(zZip[i]) /\ IsDumpEntry(zZip[j])
          /\ TrimPrefix(zZip[i].name, PrefixPostgres) \in DOMAIN zDumps
          /\ zDumps[TrimPrefix(zZip[i].name, PrefixPostgres)] # zZip[i].data
          /\ TrimPrefix(zZip[j].name, PrefixPostgres) \notin DOMAIN zDumps
          /\ zGot[TrimPrefix(zZip[j].name, PrefixPostgres)] = zZip[j].data

\* The requests Restore has made to a path.
RequestsTo(path) == {i \in 1..Len(rsReqs) : rsReqs[i].path = path}

\* C24: the ZIP that Restore sends in the field "restore" holds no
\* postgres/*.sql dump entry: it is the artifact without its enrichment.
C24_UploadsTheNonEnrichedZip ==
    \A i \in RequestsTo(PathUpload) :
        \A j \in 1..Len(rsReqs[i].restore) : ~IsDumpEntry(rsReqs[i].restore[j])

\* C25: once Restore has settled the Postgres settings, each of the six is
\* the override's value when the override has one and the value parsed from
\* config.xml otherwise, as in Backup.
C25_RestoreOverridesEachOfSixFields ==
    rsConfig # Nil =>
        /\ rsConfig = ApplyOverride(ParsedConfig, rsOverride, BackupOverrideFields)
        /\ \A f \in PgFields :
              rsConfig[f] = IF rsOverride # Nil /\ rsOverride[f] # << >>
                               THEN rsOverride[f] ELSE ParsedConfig[f]

\* C26: when Restore has returned, it has sent POST /system/restart exactly
\* if its upload was answered 2xx with RestartRequired = true, it has sent it
\* after the upload and once, and a restart answered non-2xx made Restore
\* return an error.
C26_RestartIffRequiredAndFatal ==
    /\ rsPc = "done" =>
          (RequestsTo(PathRestart) # {}
              <=> \E i \in RequestsTo(PathUpload) :
                      /\ rsReqs[i].resp.err = ""
                      /\ StatusOK(rsReqs[i].resp.status)
                      /\ rsReqs[i].resp.body = "true")
    /\ \A i \in RequestsTo(PathRestart) :
          /\ i = Len(rsReqs) /\ i > 1 /\ rsReqs[i - 1].path = PathUpload
          /\ (rsReqs[i].resp.err # "" \/ ~StatusOK(rsReqs[i].resp.status))
                => rsErr # NoError

\* Restore returned an error because its restart was answered 500.
C26_Witness ==
    /\ rsPc = "done" /\ rsErr # NoError
    /\ \E i \in RequestsTo(PathRestart) :
          rsReqs[i].resp.err = "" /\ rsReqs[i].resp.status = 500

\* C37: for an artifact with Postgres dumps, a request has been sent to the
\* app only after every dump of the artifact was restored, and when a
\* database restore has failed, Restore has returned an error and has sent
\* neither the upload nor a restart.
C37_DatabasesBeforeUploadOrNoUpload ==
    LET pgDumps == ExtractPostgresDumpsFromZip(rsZip)
        restored == 1..Len(rsRestored)
    IN  (rsKind = "radarr" /\ DOMAIN pgDumps # {}) =>
            /\ rsReqs # << >> =>
                  /\ {rsRestored[i].file : i \in restored} = DOMAIN pgDumps
                  /\ \A i \in restored : rsRestored[i].ok
            /\ (\E i \in restored : ~rsRestored[i].ok) =>
                  /\ rsPc = "done" /\ rsErr # NoError
                  /\ rsReqs = << >>

\* The upload was sent after two databases were restored.
C37_Witness ==
    /\ rsKind = "radarr"
    /\ Len(rsRestored) = 2
    /\ \A i \in 1..Len(rsRestored) : rsRestored[i].ok
    /\ RequestsTo(PathUpload) # {}

\* C38: when Restore is given the artifact Backup made with the same
\* override, each dump is restored into the database Backup took it from.
C38_DumpRestoredIntoItsDatabase ==
    (rsKind = "radarr" /\ rsZip \in BackupArtifacts(rsOverride)) =>
        LET c == BackupConfig(rsZip, rsOverride)
        IN  \A i \in 1..Len(rsRestored) :
                /\ rsRestored[i].file \in DOMAIN DumpAllDatabases(c)
                /\ rsRestored[i].db = DumpAllDatabases(c)[rsRestored[i].file]

----------------------------------------------------------------------------
(***************************************************************************)
(* Properties of app names and backup keys                                 *)
(***************************************************************************)

\* C33: the artifact that runBackup uploaded for a configured app, while
\* the backend holds it, is in the listing of every command given the app's
\* name: list, restore --latest and the web UI.
C33_UploadedIsListedUnderTheAppsName ==
    \A command \in {"list", "restore", "web"} :
        (stStored # Nil /\ stStored \in stObjects /\ stLists[command] # Nil) =>
            \E e \in stLists[command].listed : e.Key = ListedKey(stKind, stStored)

\* C39: the key of the metadata a successful Upload returned is the key of
\* an entry of List for the same app, and Download and Delete find the
\* artifact by it, as long as the artifact is stored.
C39_UploadKeyIdentifiesTheArtifact ==
    stMeta # Nil =>
        /\ stStored \in stObjects =>
              \E e \in List(stKind, stObjects, stMeta.AppName) : e.Key = stMeta.Key
        /\ \A i \in 1..Len(stCalls) : stCalls[i].held => stCalls[i].ok

----------------------------------------------------------------------------
(***************************************************************************)
(* Properties of the classification of a listing                           *)
(***************************************************************************)

\* C40: for one listing and one policy, the keys ClassifyRetentionBuckets
\* gives at least one label are the keys of selectBackupsToKeep's set, so
\* the entries without a label are those ApplyRetention would delete.
C40_LabelledIffKept ==
    (clLabels # Nil /\ clKeep # Nil) =>
        /\ \A i \in 1..Len(clBackups) :
              clLabels.labels[clBackups[i].Key] # << >> <=> clBackups[i].Key \in clKeep.keys
        /\ {clBackups[i].Key : i \in {j \in 1..Len(clBackups) :
                                        clLabels.labels[clBackups[j].Key] = << >>}}
              = DeleteTargets({clBackups[i] : i \in 1..Len(clBackups)}, clKeep.keys)

\* A listing with two entries of one instant, under a policy of two fields:
\* one entry has two labels, another has none.
C40_Witness ==
    /\ clLabels # Nil /\ clKeep # Nil
    /\ \E i, j, k \in 1..Len(clBackups) :
          /\ i # j /\ clBackups[i].CreatedAt = clBackups[j].CreatedAt
          /\ Len(clLabels.labels[clBackups[i].Key]) = 2
          /\ clLabels.labels[clBackups[k].Key] = << >>
          /\ clBackups[k].Key \notin clKeep.keys


============================================================================
